---- MODULE Spec2Model ----
(***************************************************************************)
(* QA-Portal: the scraper's write path into test_results                   *)
(* (scripts/scrape-github-prs.js), the smoke-test parse paths of the       *)
(* server (server/src/index.ts) and the failure classifier of              *)
(* GET /api/prs/:prNumber/test-failures.                                   *)
(*                                                                         *)
(* Strings whose structure the code inspects are sequences of tokens;      *)
(* SQL NULL / JS null / undefined of a string-typed value is NULL.         *)
(***************************************************************************)
EXTENDS Integers, Sequences, FiniteSets, TLC

VARIABLES
    github,        \* what the GitHub API returns: PR number -> issue comments
    test_results,  \* table test_results: a set of rows, each with its own id
    nextId,        \* AUTO_INCREMENT of test_results.id
    scr,           \* per scraper process: position in main/processPR and locals
    tr,            \* a stored pr_trillian_comments row handed to a parse path
    fact,          \* the SmokeTestResult (or NoFact) the parse path returned
    path,          \* which parse path produced fact
    now,           \* wall clock of the server, read by new Date()
    reqPR,         \* :prNumber of the last GET /api/prs/:prNumber/test-failures
    response,      \* the JSON array that request answered with
    summary,       \* the JSON object GET /api/test-failures/summary answered with
    flaky_tests_summary,  \* table flaky_tests_summary: a set of rows, each with its id
    lastFlakyRun,  \* day on which update-flaky-tests-summary.js last completed, -1 if never
    db,            \* tables pr_health_labels, pr_trillian_comments, pr_approvals read by the server
    console,       \* what the last parse of a Trillian row wrote with console.warn
    gh,            \* GitHub: state, labels and issue comments of each pull request
    job,           \* the runs of scrape-github-prs.js and update-pr-states.js over the PR tables
    host,          \* the production host: lock file, monitor and cron processes, scraper log
    query          \* one call of queryWithRetry

vars == <<github, test_results, nextId, scr, tr, fact, path, now, reqPR, response, summary,
         flaky_tests_summary, lastFlakyRun, db, console, gh, job, host, query>>

hostVars == <<gh, job, host, query>>

----------------------------------------------------------------------------
(* Bounds *)

MaxRuns == 2        \* scraper runs per process
MaxComments == 1    \* issue comments per PR
MaxCount == 2       \* largest number in a "look OK" / "have errors" token
MaxClock == 1       \* ticks of the server clock
NumPRs == 3         \* PRs with rows in test_results when failures are classified
MaxStored == 3      \* rows of test_results when failures are classified
MaxWord == 3        \* characters of a stored hypervisor name
MaxFlakyRows == 3   \* rows of test_results when the flaky summary is updated
MaxTrillianRows == 2   \* rows of pr_trillian_comments per PR
MaxDays == 80       \* days the clock runs while the flaky summary is updated
NumScraped == 2     \* open PRs of a run that walks several PRs
MaxTableRuns == 2   \* runs of the scraper and of update-pr-states.js over the PR tables
MaxFaults == 1      \* failed requests and statements while the PR tables are written
MaxCleanupRows == 4 \* rows of test_results when duplicates are cleaned up
MaxHostRuns == 1    \* starts of each monitor instance and of the cron wrapper
MaxRetries == 3     \* largest retries a caller passes to queryWithRetry

----------------------------------------------------------------------------
(* Values *)

NULL == <<"<null>">>

Scrapers == {1, 2}
OpenPRs == <<1>>

TestNames == {"test_x", "test_y"}

\* GitHub timestamps are ISO 8601 in UTC: date, "T", time, "Z".
IsoStamps == {<<"2024-01-01", "T", "10:00:00", "Z">>}

\* No "Marvin logs:" link, or the archive "...-kvm-ol8.zip".
LogUrls == {NULL,
            <<"https://dl/pr1-t1", "-kvm-", "ol8", ".zip">>}


----------------------------------------------------------------------------
(* Characters and words (hypervisor names) *)

LowerChars == {"k", "v", "m", "x"}
UpperChars == {"K", "V", "M", "X"}
DigitChars == {"8", "2"}

ToLowerChar(c) ==
    CASE c = "K" -> "k" [] c = "V" -> "v" [] c = "M" -> "m" [] c = "X" -> "x"
      [] OTHER -> c

ToUpperChar(c) ==
    CASE c = "k" -> "K" [] c = "v" -> "V" [] c = "m" -> "M" [] c = "x" -> "X"
      [] OTHER -> c

toLowerCase(w) == [i \in 1..Len(w) |-> ToLowerChar(w[i])]
toUpperCase(w) == [i \in 1..Len(w) |-> ToUpperChar(w[i])]

----------------------------------------------------------------------------
(* Comment bodies as the line scanners see them.  A line is its kind and   *)
(* the trimmed cells that splitting it on "|" yields.                      *)

HeaderLine == [kind |-> "header", cells |-> <<"Test", "Result", "Time (s)", "Test File">>]
SepLine == [kind |-> "sep", cells |-> <<"---", "---", "---", "---">>]
BlankLine == [kind |-> "blank", cells |-> <<"">>]
RowLine(name, res, file) == [kind |-> "row", cells |-> <<name, res, "1.10", file>>]

IncludesStrictHeader(line) == line.kind = "header"   \* includes "Test | Result | Time"
IncludesDashes(line) == line.kind = "sep"            \* includes "---"
IncludesPipe(line) == Len(line.cells) >= 2           \* includes "|"
TrimIsEmpty(line) == line.kind = "blank"             \* trim() is empty

\* parts[1] with every backtick removed (<bt> stands for the backtick)
StripBackticks(cell) ==
    CASE cell = "<bt>Error<bt>" -> "Error"
      [] cell = "<bt>Failure<bt>" -> "Failure"
      [] cell = "<bt>error<bt>" -> "error"
      [] cell = "<bt>failure<bt>" -> "failure"
      [] OTHER -> cell

\* The failure a data row contributes: none when it has fewer than 4 cells,
\* an empty first cell or the first cell of the header.
RowFailure(line) ==
    IF Len(line.cells) >= 4 /\ line.cells[1] # "" /\ line.cells[1] # "Test"
    THEN << [test_name |-> line.cells[1],
             result |-> StripBackticks(line.cells[2]),
             test_file |-> <<line.cells[4]>>] >>
    ELSE << >>

RECURSIVE ScanFailures(_, _, _, _, _)
ScanFailures(lines, i, inTable, headerPassed, failures) ==
    IF i > Len(lines) THEN failures
    ELSE LET line == lines[i] IN
         IF IncludesStrictHeader(line)
         THEN ScanFailures(lines, i + 1, TRUE, headerPassed, failures)
         ELSE IF inTable /\ IncludesDashes(line)
         THEN ScanFailures(lines, i + 1, inTable, TRUE, failures)
         ELSE LET pushed == IF inTable /\ headerPassed /\ IncludesPipe(line)
                            THEN failures \o RowFailure(line)
                            ELSE failures
              IN IF inTable /\ headerPassed /\ TrimIsEmpty(line)
                 THEN pushed
                 ELSE ScanFailures(lines, i + 1, inTable, headerPassed, pushed)

\* if (!comment) return []: a missing body and the empty string
parseTestFailures(comment) ==
    IF comment = NULL \/ comment = << >> THEN << >>
    ELSE ScanFailures(comment, 1, FALSE, FALSE, << >>)

----------------------------------------------------------------------------
(* scrape-github-prs.js: comment parsing *)

\* logsUrl.match(/-(kvm|vmware|xenserver|xen)-([^.]+)\.zip/i)[2]
UrlVersion(logsUrl) ==
    IF logsUrl # NULL /\ Len(logsUrl) = 4 /\ logsUrl[2] = "-kvm-" /\ logsUrl[4] = ".zip"
    THEN <<logsUrl[3]>>
    ELSE NULL

\* A GitHub issue comment: marker says whether the body includes
\* "Trillian test result" or "look OK", env is the word after "Environment:",
\* logs the URL after "Marvin logs:", lines the body split on newlines,
\* zip the test directories of the archive that logs serves.
NoComment == [present |-> FALSE]

\* reading .login of a missing user object
TypeError == [present |-> FALSE, threw |-> "TypeError"]

\* comment.user.login.includes('codecov')
LoginIncludesCodecov(user) == user = <<"codecov", "[bot]">>

\* codecov says whether the lower-cased body includes "codecov"; the login
\* is read only when it does not
parseCodecovComment(comment) ==
    IF ~comment.codecov /\ comment.user = NULL THEN TypeError
    ELSE IF ~comment.codecov /\ ~LoginIncludesCodecov(comment.user) THEN NoComment
    ELSE [present |-> TRUE, comment |-> comment.lines, created_at |-> comment.created_at]

parseTrillianComment(comment) ==
    IF ~comment.marker THEN NoComment
    ELSE [present |-> TRUE,
          hypervisor |-> IF comment.env # NULL THEN toLowerCase(comment.env) ELSE NULL,
          version |-> UrlVersion(comment.logs),
          comment |-> comment.lines,
          created_at |-> comment.created_at,
          logs_url |-> comment.logs,
          zip |-> comment.zip]

\* new Date(created_at).toISOString().slice(0, 19).replace('T', ' ')
ToMySQLDateTime(created_at) ==
    IF created_at = NULL THEN NULL
    ELSE <<created_at[1], " ", created_at[3]>>

\* testDate.replace('T', ' ').replace('Z', '').substring(0, 19)
ArtifactMySQLDate(testDate) ==
    IF testDate # NULL /\ \E i \in 1..Len(testDate) : testDate[i] = "T"
    THEN SelectSeq([i \in 1..Len(testDate) |->
                       IF testDate[i] = "T" THEN " " ELSE testDate[i]],
                   LAMBDA tok : tok # "Z")
    ELSE testDate

----------------------------------------------------------------------------
(* scrape-github-prs.js: results.txt of one MarvinLogs test directory.     *)
(* A directory is its name (stem, random suffix), its verdict line and     *)
(* the per-test lines "test_name (class) ... status".                      *)

\* testDirName.match(/^(.+)_[A-Z0-9]{6}$/): the stem, else the whole name
TestFileName(dir) == IF Len(dir.name) = 2 THEN <<dir.name[1]>> ELSE dir.name

RECURSIVE OkResults(_, _, _)
OkResults(tests, i, testFileName) ==
    IF i > Len(tests) THEN << >>
    ELSE (IF tests[i].status \in {"SKIP", "ok", "OK"}
          THEN << [test_name |-> tests[i].name,
                   test_file |-> testFileName,
                   result |-> IF tests[i].status = "SKIP" THEN "Skip" ELSE "Success"] >>
          ELSE << >>) \o OkResults(tests, i + 1, testFileName)

\* The FAILED branch evaluates "for (const erroredTests of erroredTests)":
\* the loop variable shadows the array in its temporal dead zone, the
\* ReferenceError lands in the catch of the function and [] is returned.
parseTestResultsTxt(dir) ==
    IF ~dir.ran THEN << >>
    ELSE IF dir.verdict = "OK"
    THEN LET results == OkResults(dir.tests, 1, TestFileName(dir))
             passCount == dir.total - dir.skip
         IN IF results = << >> /\ passCount > 0
            THEN << [test_name |-> TestFileName(dir)[1],
                     test_file |-> TestFileName(dir),
                     result |-> "Success"] >>
            ELSE results
    ELSE << >>

RECURSIVE AllResults(_, _)
AllResults(zip, i) ==
    IF i > Len(zip) THEN << >>
    ELSE parseTestResultsTxt(zip[i]) \o AllResults(zip, i + 1)

\* null and [] are both skipped by the caller (fullResults && length > 0)
downloadTrillianTestResults(trillian) ==
    IF trillian.logs_url = NULL THEN << >> ELSE AllResults(trillian.zip, 1)

----------------------------------------------------------------------------
(* server/src/index.ts: the three smoke-test parse paths.                  *)
(* A stored comment body is the number of its first "<N> look OK",         *)
(* "<N> have errors" and "<N> did not run" token (NoMatch when the         *)
(* pattern does not match), its first ".zip" link and its lines.           *)

NoMatch == -1
NoFact == [present |-> FALSE]
NoSummary == [present |-> FALSE]
NoHealthData == [pr_health_labels |-> << >>]
NoJob == [pc |-> "none"]

\* nothing runs on the host and no query is in flight
HostIdle ==
    /\ gh = << >>
    /\ job = NoJob
    /\ host = NoJob
    /\ query = NoJob
UNKNOWN == <<"U", "N", "K", "N", "O", "W", "N">>

TextLine(text) == [kind |-> "text", cells |-> <<text>>]
LooseHeaderLine == [kind |-> "loosehdr", cells |-> <<"Test", "Result">>]

OkMatch(comment) == comment.ok # NoMatch            \* /(\d+)\s+look\s+OK/i
ErrorMatch(comment) == comment.errors # NoMatch     \* /(\d+)\s+have\s+errors/i
SkippedMatch(comment) == comment.skipped # NoMatch  \* /(\d+)\s+did\s+not\s+run/i

IsLetter(c) == c \in LowerChars \cup UpperChars
IsDigit(c) == c \in DigitChars

RECURSIVE LeadingLetters(_, _)
LeadingLetters(w, i) ==
    IF i <= Len(w) /\ IsLetter(w[i]) THEN LeadingLetters(w, i + 1) ELSE i - 1

Truthy(str) == str # NULL /\ str # << >>

\* hypervisor.match(/^([a-z]+)(.+)$/i) with /\d/.test(hvVersion): the
\* greedy letter run and a rest that holds a digit; a word of letters only
\* matches with its last letter as rest, which holds no digit.
NormalizeHypervisor(hypervisor, version) ==
    IF ~Truthy(version) /\ Truthy(hypervisor)
    THEN LET n == LeadingLetters(hypervisor, 1)
             hvName == SubSeq(hypervisor, 1, n)
             hvVersion == SubSeq(hypervisor, n + 1, Len(hypervisor))
         IN IF n >= 1 /\ hvVersion # << >> /\ \E i \in 1..Len(hvVersion) : IsDigit(hvVersion[i])
            THEN [hypervisor |-> hvName, version |-> hvVersion]
            ELSE [hypervisor |-> hypervisor, version |-> version]
    ELSE [hypervisor |-> hypervisor, version |-> version]

\* hypervisor?.toUpperCase() || 'UNKNOWN'
DisplayHypervisor(hypervisor) ==
    IF Truthy(hypervisor) THEN toUpperCase(hypervisor) ELSE UNKNOWN

OrNull(str) == IF Truthy(str) THEN str ELSE NULL    \* version || null

AppendDistinct(names, name) ==
    IF \E i \in 1..Len(names) : names[i] = name THEN names ELSE Append(names, name)

StartsWithTestPrefix(cell) == cell \in TestNames      \* startsWith('test_')

\* result.toLowerCase() includes 'error' or 'fail'
LooksFailed(cell) ==
    cell \in {"<bt>Error<bt>", "<bt>Failure<bt>", "<bt>error<bt>", "<bt>failure<bt>",
              "Error", "FAILED"}

\* includes 'Test', 'Result' and '|'
IncludesLooseHeader(line) == line.kind \in {"header", "loosehdr"}
TrimStartsWithDashes(line) == line.kind = "sep"

\* getHealthPRsFromDatabase: the table scan
RECURSIVE HealthTableScan(_, _, _, _)
HealthTableScan(lines, i, inTable, failedTests) ==
    IF i > Len(lines) THEN failedTests
    ELSE LET line == lines[i] IN
         IF IncludesLooseHeader(line) THEN HealthTableScan(lines, i + 1, TRUE, failedTests)
         ELSE IF TrimStartsWithDashes(line) THEN HealthTableScan(lines, i + 1, inTable, failedTests)
         ELSE IF inTable /\ IncludesPipe(line)
         THEN HealthTableScan(lines, i + 1, inTable,
                  IF Len(line.cells) >= 2 /\ StartsWithTestPrefix(line.cells[1])
                                          /\ LooksFailed(line.cells[2])
                  THEN AppendDistinct(failedTests, line.cells[1])
                  ELSE failedTests)
         ELSE IF inTable /\ TrimIsEmpty(line) THEN HealthTableScan(lines, i + 1, FALSE, failedTests)
         ELSE HealthTableScan(lines, i + 1, inTable, failedTests)

\* /(test_\w+)[\s.]*(?:ERROR|FAIL|FAILED)/gi: the name it captures in a line
FallbackName(line) ==
    IF line.kind # "text" THEN ""
    ELSE CASE line.cells[1] = "test_x FAILED" -> "test_x"
           [] line.cells[1] = "test_y ... ERROR" -> "test_y"
           [] OTHER -> ""

RECURSIVE FallbackScan(_, _, _)
FallbackScan(lines, i, failedTests) ==
    IF i > Len(lines) THEN failedTests
    ELSE FallbackScan(lines, i + 1,
             IF FallbackName(lines[i]) # ""
             THEN AppendDistinct(failedTests, FallbackName(lines[i]))
             ELSE failedTests)

\* Mutant: the names are extracted whatever the errors count is
HealthFailedTestsUnguarded(comment) ==
    LET fromTable == HealthTableScan(comment.lines, 1, FALSE, << >>)
    IN IF fromTable = << >> THEN FallbackScan(comment.lines, 1, << >>) ELSE fromTable

HealthFailedTests(comment) ==
    IF ErrorMatch(comment) /\ comment.errors > 0
    THEN LET fromTable == HealthTableScan(comment.lines, 1, FALSE, << >>)
         IN IF fromTable = << >> THEN FallbackScan(comment.lines, 1, << >>) ELSE fromTable
    ELSE << >>

\* Mutant: the total leaves out the passed tests
HealthTotalErrorsOnly(comment) ==
    IF ErrorMatch(comment) /\ OkMatch(comment) THEN comment.errors ELSE 0

HealthTotal(comment) ==
    IF ErrorMatch(comment) /\ OkMatch(comment) THEN comment.ok + comment.errors ELSE 0

\* tr.logs_url, else the first ".zip" link of the comment, else undefined
LogsUrlOf(row) == IF Truthy(row.logs_url) THEN row.logs_url ELSE row.trillian_comment.zip

\* "Only return if we found actual test results"
HealthFoundResults(comment, total) == OkMatch(comment) /\ total > 0

getHealthSmokeTest(row) ==
    LET comment == row.trillian_comment
        passed == IF OkMatch(comment) THEN comment.ok ELSE 0
        total == HealthTotal(comment)
        failedTests == HealthFailedTests(comment)
        hv == NormalizeHypervisor(row.hypervisor, row.version)
    IN IF HealthFoundResults(comment, total)
       THEN [present |-> TRUE,
             hypervisor |-> DisplayHypervisor(hv.hypervisor),
             version |-> OrNull(hv.version),
             passed |-> passed,
             total |-> total,
             status |-> IF ErrorMatch(comment) /\ comment.errors > 0 THEN "FAIL" ELSE "OK",
             logsUrl |-> LogsUrlOf(row),
             failedTests |-> IF Len(failedTests) > 0 THEN failedTests ELSE NULL,
             createdAt |-> row.trillian_created_at]
       ELSE NoFact

\* getPRFromDatabase
PRTotal(comment) ==
    IF ErrorMatch(comment) /\ OkMatch(comment)
    THEN comment.ok + comment.errors
         + (IF SkippedMatch(comment) THEN comment.skipped ELSE 0)
    ELSE IF OkMatch(comment) /\ SkippedMatch(comment) THEN comment.ok + comment.skipped
    ELSE IF OkMatch(comment) THEN comment.ok
    ELSE 0

\* /^\s*(\w*test_\w+)\s*\|\s*<bt>(Error|Failure|error|failure)<bt>/gm
TableRowPattern(line) ==
    /\ Len(line.cells) >= 2
    /\ StartsWithTestPrefix(line.cells[1])
    /\ line.cells[2] \in {"<bt>Error<bt>", "<bt>Failure<bt>", "<bt>error<bt>", "<bt>failure<bt>"}

RECURSIVE PRRowScan(_, _, _)
PRRowScan(lines, i, failedTests) ==
    IF i > Len(lines) THEN failedTests
    ELSE PRRowScan(lines, i + 1,
             IF TableRowPattern(lines[i])
             THEN AppendDistinct(failedTests, lines[i].cells[1])
             ELSE failedTests)

PRFailedTests(comment) ==
    IF ErrorMatch(comment) /\ comment.errors > 0
    THEN LET fromTable == PRRowScan(comment.lines, 1, << >>)
         IN IF fromTable = << >> THEN FallbackScan(comment.lines, 1, << >>) ELSE fromTable
    ELSE << >>

\* "Verify we found the right number of failed tests": the console.warn lines
\* of one row
PRWarnings(row) ==
    LET comment == row.trillian_comment
        failedTests == PRFailedTests(comment)
    IN IF /\ ErrorMatch(comment) /\ comment.errors > 0
          /\ Len(failedTests) > 0 /\ Len(failedTests) # comment.errors
       THEN <<[level |-> "warn", found |-> Len(failedTests), expected |-> comment.errors]>>
       ELSE << >>

\* Mutant: a total of 0 is let through
PRFoundResultsAllowZero(comment, total) == OkMatch(comment) /\ total >= 0

\* "Only return if we found actual test results"
PRFoundResults(comment, total) == OkMatch(comment) /\ total > 0

getPRSmokeTest(row) ==
    LET comment == row.trillian_comment
        passed == IF OkMatch(comment) THEN comment.ok ELSE 0
        total == PRTotal(comment)
        failedTests == PRFailedTests(comment)
        hasErrors == ErrorMatch(comment) /\ comment.errors > 0
        hv == NormalizeHypervisor(row.hypervisor, row.version)
    IN IF PRFoundResults(comment, total)
       THEN [present |-> TRUE,
             hypervisor |-> DisplayHypervisor(hv.hypervisor),
             version |-> OrNull(hv.version),
             passed |-> passed,
             total |-> total,
             status |-> IF hasErrors THEN "FAIL" ELSE "OK",
             logsUrl |-> comment.zip,
             failedTests |-> IF hasErrors THEN failedTests ELSE NULL,
             createdAt |-> row.trillian_created_at]
       ELSE NoFact

\* getAllOpenPRsFromDatabase
AllOpenTotal(comment) ==
    IF ErrorMatch(comment) /\ OkMatch(comment)
    THEN comment.ok + comment.errors
         + (IF SkippedMatch(comment) THEN comment.skipped ELSE 0)
    ELSE IF OkMatch(comment) /\ SkippedMatch(comment) THEN comment.ok + comment.skipped
    ELSE IF OkMatch(comment) THEN comment.ok
    ELSE 0

getAllOpenSmokeTest(row, clock) ==
    LET comment == row.trillian_comment
        passed == IF OkMatch(comment) THEN comment.ok ELSE 0
        total == AllOpenTotal(comment)
        hv == NormalizeHypervisor(row.hypervisor, row.version)
    IN IF ~Truthy(row.hypervisor) \/ total = 0
       THEN NoFact
       ELSE [present |-> TRUE,
             hypervisor |-> toUpperCase(hv.hypervisor),
             version |-> OrNull(hv.version),
             passed |-> passed,
             total |-> total,
             status |-> IF passed = total THEN "OK" ELSE "FAIL",
             logsUrl |-> LogsUrlOf(row),
             failedTests |-> NULL,
             createdAt |-> IF Truthy(row.trillian_created_at)
                           THEN row.trillian_created_at
                           ELSE <<"now", ToString(clock)>>]

----------------------------------------------------------------------------
(* The GitHub side the scraper reads *)

SeqsUpTo(S, n) == UNION {[1..k -> S] : k \in 0..n}

ErrorRow(name) == RowLine(name, "<bt>Error<bt>", "test_a.py")

\* no table rows, one failed test, two failed tests
TableBodies ==
    {<<HeaderLine, SepLine>>,
     <<HeaderLine, SepLine, ErrorRow("test_x")>>,
     <<HeaderLine, SepLine, ErrorRow("test_x"), ErrorRow("test_y")>>}

Dir(stem, verdict, tests) ==
    [name |-> <<stem, "_X4YNJS">>, ran |-> TRUE, verdict |-> verdict, total |-> 1,
     skip |-> IF tests # << >> /\ tests[1].status = "SKIP" THEN 1 ELSE 0,
     tests |-> tests]

TestLine(name, status) == [name |-> name, status |-> status]

\* archives: one passing file; the same test name passing in two files; a
\* failed file next to a file without per-test lines; a skipped test
Zips ==
    {<<Dir("test_a", "OK", <<TestLine("test_x", "ok")>>)>>,
     <<Dir("test_a", "OK", <<TestLine("test_x", "ok")>>),
       Dir("test_b", "OK", <<TestLine("test_x", "ok")>>)>>,
     <<Dir("test_a", "FAILED", <<TestLine("test_x", "FAIL")>>),
       Dir("test_b", "OK", << >>)>>,
     <<Dir("test_b", "OK", <<TestLine("test_y", "SKIP")>>)>>}

EnvWords == {NULL, <<"K", "V", "M">>}

Users == {NULL, <<"blueorangutan">>}

\* a plain comment by a user or by a missing author, a Codecov comment by a
\* missing author, and the Trillian comments of the bot
Comments ==
    {[marker |-> FALSE, codecov |-> FALSE, user |-> u, env |-> NULL, logs |-> NULL,
      created_at |-> ts, lines |-> << >>, zip |-> << >>] : ts \in IsoStamps, u \in Users}
    \cup
    {[marker |-> FALSE, codecov |-> TRUE, user |-> NULL, env |-> NULL, logs |-> NULL,
      created_at |-> ts, lines |-> << >>, zip |-> << >>] : ts \in IsoStamps}
    \cup
    UNION {{[marker |-> TRUE, codecov |-> FALSE, user |-> <<"blueorangutan">>, env |-> e,
             logs |-> l, created_at |-> ts, lines |-> b, zip |-> z] :
               e \in EnvWords, ts \in IsoStamps, b \in TableBodies,
               z \in IF l = NULL THEN {<< >>} ELSE Zips} : l \in LogUrls}

PRNumbers == {OpenPRs[i] : i \in 1..Len(OpenPRs)}

----------------------------------------------------------------------------
(* scrape-github-prs.js: the writes of processPR into test_results, one    *)
(* step per awaited statement                                              *)

NullSafeEq(a, b) == a = b                          \* a <=> b
SqlEq(a, b) == a # NULL /\ b # NULL /\ a = b       \* a = b

RECURSIVE TrillianComments(_, _)
TrillianComments(comments, i) ==
    IF i > Len(comments) THEN << >>
    ELSE LET parsed == parseTrillianComment(comments[i])
         IN (IF parsed.present THEN <<parsed>> ELSE << >>)
            \o TrillianComments(comments, i + 1)

\* processPR: the loop over parseCodecovComment, which stops at the first
\* Codecov comment; TRUE when a comment before that one throws
RECURSIVE CodecovLoopThrows(_, _)
CodecovLoopThrows(comments, i) ==
    IF i > Len(comments) THEN FALSE
    ELSE LET parsed == parseCodecovComment(comments[i])
         IN IF parsed = TypeError THEN TRUE
            ELSE IF parsed.present THEN FALSE
            ELSE CodecovLoopThrows(comments, i + 1)

NewRow(prNumber, res, hypervisor, version, testDate) ==
    [pr_number |-> prNumber, test_name |-> res.test_name, test_file |-> res.test_file,
     result |-> res.result, hypervisor |-> hypervisor,
     hypervisor_version |-> version, test_date |-> testDate]

\* storeTestFailures: the rows its loops look up, in order
RECURSIVE StfOps(_, _, _)
StfOps(prNumber, trillianComments, i) ==
    IF i > Len(trillianComments) THEN << >>
    ELSE LET trillian == trillianComments[i]
             failures == parseTestFailures(trillian.comment)
             createdAt == ToMySQLDateTime(trillian.created_at)
         IN [k \in 1..Len(failures) |->
                NewRow(prNumber, failures[k], trillian.hypervisor, trillian.version, createdAt)]
            \o StfOps(prNumber, trillianComments, i + 1)

\* the download loop of processPR with storeArtifactTestResults: the rows
\* its loops look up, in order
RECURSIVE ArtOps(_, _, _)
ArtOps(prNumber, trillianComments, i) ==
    IF i > Len(trillianComments) THEN << >>
    ELSE LET trillian == trillianComments[i]
             fullResults == downloadTrillianTestResults(trillian)
             mysqlDate == ArtifactMySQLDate(trillian.created_at)
         IN [k \in 1..Len(fullResults) |->
                NewRow(prNumber, fullResults[k], trillian.hypervisor, trillian.version, mysqlDate)]
            \o ArtOps(prNumber, trillianComments, i + 1)

StfExisting(rows, op) ==
    {r \in rows : /\ r.pr_number = op.pr_number
                  /\ r.test_name = op.test_name
                  /\ NullSafeEq(r.hypervisor, op.hypervisor)
                  /\ NullSafeEq(r.hypervisor_version, op.hypervisor_version)
                  /\ NullSafeEq(r.test_date, op.test_date)}

\* Mutant: hypervisor compared with = as in the earlier copy of the scraper
ArtExistingPlainEq(rows, op) ==
    {r \in rows : /\ r.pr_number = op.pr_number
                  /\ r.test_name = op.test_name
                  /\ NullSafeEq(r.test_file, op.test_file)
                  /\ SqlEq(r.hypervisor, op.hypervisor)
                  /\ NullSafeEq(r.hypervisor_version, op.hypervisor_version)
                  /\ SqlEq(r.test_date, op.test_date)}

ArtExisting(rows, op) ==
    {r \in rows : /\ r.pr_number = op.pr_number
                  /\ r.test_name = op.test_name
                  /\ NullSafeEq(r.test_file, op.test_file)
                  /\ NullSafeEq(r.hypervisor, op.hypervisor)
                  /\ NullSafeEq(r.hypervisor_version, op.hypervisor_version)
                  /\ SqlEq(r.test_date, op.test_date)}

WithId(op, id) ==
    [id |-> id, pr_number |-> op.pr_number, test_name |-> op.test_name,
     test_file |-> op.test_file, result |-> op.result, hypervisor |-> op.hypervisor,
     hypervisor_version |-> op.hypervisor_version, test_date |-> op.test_date]

IdleScraper == [pc |-> "idle", runs |-> 0, pi |-> 0, stf |-> << >>, art |-> << >>, existing |-> 0]

RunsStarted == scr[1].runs + scr[2].runs

\* Mutant: the artifact downloads of a PR are not awaited, main moves on
\* once the comment-table failures are stored
ContinueDetached(p, stf, art) ==
    [scr EXCEPT ![p].stf = stf, ![p].art = art, ![p].existing = 0,
                ![p].pc = IF stf # << >> THEN "stf_select"
                          ELSE IF art # << >> THEN "art_select"
                          ELSE "fetch",
                ![p].pi = IF stf = << >> /\ @ < Cardinality(DOMAIN github) THEN @ + 1 ELSE @]

\* where processPR continues once its pending lookups are stf and art
Continue(p, stf, art) ==
    [scr EXCEPT ![p].stf = stf, ![p].art = art, ![p].existing = 0,
                ![p].pc = IF stf # << >> THEN "stf_select"
                          ELSE IF art # << >> THEN "art_select"
                          ELSE "fetch",
                ![p].pi = IF stf = << >> /\ art = << >> THEN @ + 1 ELSE @]

ServerUnchanged ==
    UNCHANGED <<tr, fact, path, now, reqPR, response, summary, flaky_tests_summary,
                lastFlakyRun, db, console, hostVars>>

\* main: fetchOpenPRs and the first iteration of the loop
StartRun(p) ==
    /\ scr[p].pc = "idle"
    /\ RunsStarted < MaxRuns
    /\ scr' = [scr EXCEPT ![p].pc = "fetch", ![p].pi = 1, ![p].runs = @ + 1]
    /\ UNCHANGED <<github, test_results, nextId>>
    /\ ServerUnchanged

\* fetchOpenPRs: the open PRs GitHub lists, in the order of the listing
fetchOpenPRs == [i \in 1..Cardinality(DOMAIN github) |-> i]

\* processPR up to the parsed Trillian comments, or the end of main; an
\* error thrown on the way is caught by processPR, which returns
FetchPR(p) ==
    /\ scr[p].pc = "fetch"
    /\ IF scr[p].pi > Len(fetchOpenPRs)
       THEN scr' = [scr EXCEPT ![p].pc = "idle", ![p].pi = 0]
       ELSE LET prNumber == fetchOpenPRs[scr[p].pi]
                trillianComments == TrillianComments(github[prNumber], 1)
            IN IF CodecovLoopThrows(github[prNumber], 1)
               THEN scr' = Continue(p, << >>, << >>)
               ELSE scr' = Continue(p, StfOps(prNumber, trillianComments, 1),
                                       ArtOps(prNumber, trillianComments, 1))
    /\ UNCHANGED <<github, test_results, nextId>>
    /\ ServerUnchanged

\* storeTestFailures: SELECT id ... LIMIT 1
StfSelect(p) ==
    /\ scr[p].pc = "stf_select"
    /\ IF StfExisting(test_results, Head(scr[p].stf)) = {}
       THEN scr' = [scr EXCEPT ![p].pc = "stf_insert"]
       ELSE scr' = Continue(p, Tail(scr[p].stf), scr[p].art)
    /\ UNCHANGED <<github, test_results, nextId>>
    /\ ServerUnchanged

\* storeTestFailures: INSERT INTO test_results
StfInsert(p) ==
    /\ scr[p].pc = "stf_insert"
    /\ test_results' = test_results \cup {WithId(Head(scr[p].stf), nextId)}
    /\ nextId' = nextId + 1
    /\ scr' = Continue(p, Tail(scr[p].stf), scr[p].art)
    /\ UNCHANGED github
    /\ ServerUnchanged

\* storeArtifactTestResults: SELECT id ... LIMIT 1
ArtSelect(p) ==
    /\ scr[p].pc = "art_select"
    /\ LET existing == ArtExisting(test_results, Head(scr[p].art))
       IN IF existing = {}
          THEN scr' = [scr EXCEPT ![p].pc = "art_insert"]
          ELSE \E r \in existing :
                  scr' = [scr EXCEPT ![p].pc = "art_update", ![p].existing = r.id]
    /\ UNCHANGED <<github, test_results, nextId>>
    /\ ServerUnchanged

\* storeArtifactTestResults: UPDATE test_results SET result WHERE id
ArtUpdate(p) ==
    /\ scr[p].pc = "art_update"
    /\ test_results' = {IF r.id = scr[p].existing
                        THEN [r EXCEPT !.result = Head(scr[p].art).result]
                        ELSE r : r \in test_results}
    /\ scr' = Continue(p, scr[p].stf, Tail(scr[p].art))
    /\ UNCHANGED <<github, nextId>>
    /\ ServerUnchanged

\* storeArtifactTestResults: INSERT INTO test_results
ArtInsert(p) ==
    /\ scr[p].pc = "art_insert"
    /\ test_results' = test_results \cup {WithId(Head(scr[p].art), nextId)}
    /\ nextId' = nextId + 1
    /\ scr' = Continue(p, scr[p].stf, Tail(scr[p].art))
    /\ UNCHANGED github
    /\ ServerUnchanged

ScraperStep(p) ==
    \/ StartRun(p)
    \/ FetchPR(p)
    \/ StfSelect(p)
    \/ StfInsert(p)
    \/ ArtSelect(p)
    \/ ArtUpdate(p)
    \/ ArtInsert(p)

NoRow == [hypervisor |-> NULL]

ServerIdle ==
    /\ tr = NoRow
    /\ fact = NoFact
    /\ path = "none"
    /\ now = 0
    /\ reqPR = 0
    /\ response = {}
    /\ summary = NoSummary
    /\ flaky_tests_summary = {}
    /\ lastFlakyRun = -1
    /\ db = NoHealthData
    /\ console = << >>
    /\ HostIdle

Init ==
    /\ github \in [PRNumbers -> SeqsUpTo(Comments, MaxComments)]
    /\ test_results = {}
    /\ nextId = 1
    /\ scr = [p \in Scrapers |-> IdleScraper]
    /\ ServerIdle

\* one scraper process: runs follow each other
Next == ScraperStep(1)

Spec == Init /\ [][Next]_vars

\* two scraper processes on the same database
NextConcurrent == \E p \in Scrapers : ScraperStep(p)

NaturalKey(r) ==
    <<r.pr_number, r.test_name, r.hypervisor, r.hypervisor_version, r.test_date>>

\* every row the scraper looks up for the PR, in the order of one run
Lookups(prNumber) ==
    LET trillianComments == TrillianComments(github[prNumber], 1)
    IN StfOps(prNumber, trillianComments, 1) \o ArtOps(prNumber, trillianComments, 1)

\* The concurrent specification starts from the PRs whose comments and
\* archives name each test under one test file only, so that one process
\* alone stores one row per natural key.
OneFilePerTest ==
    \A prNumber \in PRNumbers :
        \A i, j \in 1..Len(Lookups(prNumber)) :
            NaturalKey(Lookups(prNumber)[i]) = NaturalKey(Lookups(prNumber)[j])
                => Lookups(prNumber)[i].test_file = Lookups(prNumber)[j].test_file

InitConcurrent == Init /\ OneFilePerTest

SpecConcurrent == InitConcurrent /\ [][NextConcurrent]_vars

----------------------------------------------------------------------------
(* Claims about the write path into test_results *)

FullKey(r) ==
    <<r.pr_number, r.test_name, r.test_file, r.hypervisor, r.hypervisor_version,
      r.test_date>>

ConcurrentOneRowPerNaturalKey ==
    \A r \in test_results :
        Cardinality({q \in test_results : NaturalKey(q) = NaturalKey(r)}) = 1

----------------------------------------------------------------------------
(* The parse paths applied to stored pr_trillian_comments rows *)

Counts == {NoMatch} \cup 0..MaxCount

HypervisorWords == {NULL, << >>, <<"k", "v", "m">>, <<"x", "8", "2">>}
VersionWords == {NULL, <<"ol8">>}
StoredStamps == {NULL, <<"2024-01-01", " ", "10:00:00">>}

CommentLines ==
    {<< >>,
     <<HeaderLine, SepLine, RowLine("test_x", "<bt>Error<bt>", "test_a.py"),
       RowLine("test_y", "<bt>Success<bt>", "test_a.py")>>,
     <<TextLine("test_x FAILED"), TextLine("test_y ... ERROR")>>,
     <<LooseHeaderLine, SepLine, RowLine("test_x", "<bt>Failure<bt>", "test_a.py"),
       BlankLine, RowLine("test_y", "<bt>Error<bt>", "test_b.py")>>,
     <<HeaderLine, SepLine, RowLine("test_x", "<bt>Error<bt>", "test_a.py"),
       BlankLine, HeaderLine, SepLine, RowLine("test_y", "<bt>Error<bt>", "test_b.py")>>}

StoredComments ==
    [ok : Counts, errors : Counts, skipped : Counts, zip : {NULL}, lines : CommentLines]

StoredRows ==
    [hypervisor : HypervisorWords, version : VersionWords, logs_url : {NULL},
     trillian_created_at : StoredStamps, trillian_comment : StoredComments]

ScraperIdle ==
    /\ github = [prNumber \in PRNumbers |-> << >>]
    /\ test_results = {}
    /\ nextId = 1
    /\ scr = [p \in Scrapers |-> IdleScraper]

ScraperUnchanged ==
    UNCHANGED <<github, test_results, nextId, scr, flaky_tests_summary, lastFlakyRun, db,
                console, hostVars>>

InitParse ==
    /\ ScraperIdle
    /\ tr \in StoredRows
    /\ fact = NoFact
    /\ path = "none"
    /\ now = 0
    /\ reqPR = 0
    /\ response = {}
    /\ summary = NoSummary
    /\ flaky_tests_summary = {}
    /\ lastFlakyRun = -1
    /\ db = NoHealthData
    /\ console = << >>
    /\ HostIdle

\* GET /api/health-prs, GET /api/ready-to-merge: one Trillian row
ParseHealth ==
    /\ fact' = getHealthSmokeTest(tr)
    /\ console' = << >>
    /\ path' = "health"
    /\ UNCHANGED <<tr, now, reqPR, response, summary>>
    /\ UNCHANGED <<github, test_results, nextId, scr, flaky_tests_summary, lastFlakyRun, db,
                   hostVars>>

\* GET /api/pr/:number: one Trillian row
ParsePR ==
    /\ fact' = getPRSmokeTest(tr)
    /\ console' = PRWarnings(tr)
    /\ path' = "pr"
    /\ UNCHANGED <<tr, now, reqPR, response, summary>>
    /\ UNCHANGED <<github, test_results, nextId, scr, flaky_tests_summary, lastFlakyRun, db,
                   hostVars>>

\* GET /api/all-open-prs: one Trillian row
ParseAllOpen ==
    /\ fact' = getAllOpenSmokeTest(tr, now)
    /\ console' = << >>
    /\ path' = "allopen"
    /\ UNCHANGED <<tr, now, reqPR, response, summary>>
    /\ UNCHANGED <<github, test_results, nextId, scr, flaky_tests_summary, lastFlakyRun, db,
                   hostVars>>

Tick ==
    /\ now < MaxClock
    /\ now' = now + 1
    /\ UNCHANGED <<tr, fact, path, reqPR, response, summary>>
    /\ ScraperUnchanged

NextParse == ParseHealth \/ ParsePR \/ ParseAllOpen \/ Tick

SpecParse == InitParse /\ [][NextParse]_vars

----------------------------------------------------------------------------
(* Claims about the smoke-test facts *)

Parsed == path # "none"
Returned == path # "none" /\ fact.present
Body == tr.trillian_comment

\* the numbers of the tokens that are present, added up
PresentSum(comment) ==
    (IF OkMatch(comment) THEN comment.ok ELSE 0)
    + (IF ErrorMatch(comment) THEN comment.errors ELSE 0)
    + (IF SkippedMatch(comment) THEN comment.skipped ELSE 0)

\* C5 (as stated): a parse path returns null if and only if the body has no
\* "<N> look OK" match.
NullOnlyWithoutLookOK ==
    Parsed => (fact = NoFact <=> ~OkMatch(Body))

\* C5 (amended): a parse path returns null exactly when the body has no
\* "<N> look OK" match or its total is 0: in the single-PR and all-open
\* paths the present numbers add up to 0, in the health path there is no
\* errors token or look-OK plus errors is 0; the all-open path also returns
\* null when the stored hypervisor is absent.  "0 look OK" without an errors
\* token gives null.
NullWithoutLookOKOrTotal ==
    /\ path = "health" =>
          (fact = NoFact <=> \/ ~OkMatch(Body)
                             \/ ~ErrorMatch(Body)
                             \/ Body.ok + Body.errors = 0)
    /\ path = "pr" =>
          (fact = NoFact <=> ~OkMatch(Body) \/ PresentSum(Body) = 0)
    /\ path = "allopen" =>
          (fact = NoFact <=> \/ ~OkMatch(Body)
                             \/ PresentSum(Body) = 0
                             \/ ~Truthy(tr.hypervisor))

\* C5 witness: "0 look OK" with no errors and no skipped token went through
\* the single-PR path, which returned null.
ZeroLookOKRejected ==
    /\ path = "pr"
    /\ Body.ok = 0 /\ ~ErrorMatch(Body) /\ ~SkippedMatch(Body)
    /\ fact = NoFact

\* C6: in every fact of every parse path, status is FAIL if and only if an
\* "<N> have errors" token is present with N > 0.
StatusFailIffErrors ==
    Returned => (fact.status = "FAIL" <=> (ErrorMatch(Body) /\ Body.errors > 0))

\* C7: in every fact of every parse path, total is passed + errors
\* (+ skipped when present) with an errors token, passed + skipped with a
\* skipped token only, and passed with neither.
TotalAddsPresentTokens ==
    Returned => fact.total =
        (IF ErrorMatch(Body)
         THEN fact.passed + Body.errors + (IF SkippedMatch(Body) THEN Body.skipped ELSE 0)
         ELSE IF SkippedMatch(Body) THEN fact.passed + Body.skipped
         ELSE fact.passed)

\* C8: every fact of every parse path has passed <= total.
PassedAtMostTotal ==
    Returned => fact.passed <= fact.total

\* C8 witness: the health path returned a fact with errors, so that total
\* exceeds passed.
HealthFactWithErrors ==
    /\ path = "health" /\ fact.present
    /\ fact.passed > 0 /\ fact.passed < fact.total

\* C9: every fact whose status is OK has no failed test names.
OKHasNoFailedTests ==
    (Returned /\ fact.status = "OK") => fact.failedTests \in {NULL, << >>}

\* C9 witness: the health path returned an OK fact for a comment whose
\* table holds a failed row, which the scan was not run on.
OKFactOverFailedRows ==
    /\ path = "health" /\ fact.present /\ fact.status = "OK"
    /\ HealthTableScan(Body.lines, 1, FALSE, << >>) # << >>

\* C10: every fact has a non-empty hypervisor, and a row whose stored
\* hypervisor is absent still gives its fact, with hypervisor UNKNOWN: the
\* path returns a fact for it whenever it does for the same row stored
\* with a hypervisor.
WithHypervisor(row) == [row EXCEPT !.hypervisor = <<"k", "v", "m">>]

ReturnsFactFor(row) ==
    CASE path = "health" -> getHealthSmokeTest(row).present
      [] path = "pr" -> getPRSmokeTest(row).present
      [] path = "allopen" -> getAllOpenSmokeTest(row, now).present
      [] OTHER -> FALSE

----------------------------------------------------------------------------
(* server/src/index.ts: GET /api/prs/:prNumber/test-failures *)

\* Mutant: the PR asked about is not excluded
OtherPRCountAllPRs(rows, testName, prNumber) ==
    Cardinality({r.pr_number : r \in {q \in rows : q.test_name = testName}})

\* SELECT COUNT(DISTINCT pr_number) ... WHERE test_name = ? AND pr_number != ?
OtherPRCount(rows, testName, prNumber) ==
    Cardinality({r.pr_number : r \in {q \in rows : /\ q.test_name = testName
                                                   /\ q.pr_number # prNumber}})

\* Mutant: the threshold of the commonFailures query of the summary
IsCommonAboveTwo(otherPRCount) == otherPRCount > 2

IsCommon(otherPRCount) == otherPRCount >= 2

\* one element of the answer: the row and its classification
Classified(rows, failure, prNumber) ==
    LET otherPRCount == OtherPRCount(rows, failure.test_name, prNumber)
    IN [id |-> failure.id,
        pr_number |-> failure.pr_number,
        test_name |-> failure.test_name,
        result |-> failure.result,
        hypervisor |-> failure.hypervisor,
        is_common |-> IsCommon(otherPRCount),
        occurrence_count |-> otherPRCount + 1,
        severity |-> IF IsCommon(otherPRCount) THEN "low" ELSE "high"]

ClassifiedPRs == 1..NumPRs

\* what one stored row can be besides its PR: a failure from the comment
\* table under either hypervisor, the same test failing in another test
\* file, and a passed test from an archive of an earlier Trillian run
Variants ==
    << [test_name |-> "test_x", test_file |-> <<"test_a.py">>, result |-> "Error",
        hypervisor |-> <<"k", "v", "m">>, test_date |-> <<"2024-01-01", " ", "10:00:00">>],
       [test_name |-> "test_x", test_file |-> <<"test_a.py">>, result |-> "Error",
        hypervisor |-> <<"v", "m", "w">>, test_date |-> <<"2024-01-01", " ", "10:00:00">>],
       [test_name |-> "test_y", test_file |-> <<"test_a.py">>, result |-> "Error",
        hypervisor |-> <<"k", "v", "m">>, test_date |-> <<"2024-01-01", " ", "10:00:00">>],
       [test_name |-> "test_y", test_file |-> <<"test_a.py">>, result |-> "Error",
        hypervisor |-> <<"v", "m", "w">>, test_date |-> <<"2024-01-01", " ", "10:00:00">>],
       [test_name |-> "test_x", test_file |-> <<"test_b.py">>, result |-> "Error",
        hypervisor |-> <<"k", "v", "m">>, test_date |-> <<"2024-01-01", " ", "10:00:00">>],
       [test_name |-> "test_x", test_file |-> <<"test_a">>, result |-> "Success",
        hypervisor |-> <<"k", "v", "m">>, test_date |-> <<"2023-12-20", " ", "10:00:00">>] >>

\* the rows the scraper can have stored
StoredResults ==
    {[id |-> (prNumber - 1) * Len(Variants) + k,
      pr_number |-> prNumber, test_name |-> Variants[k].test_name,
      test_file |-> Variants[k].test_file, result |-> Variants[k].result,
      hypervisor |-> Variants[k].hypervisor, hypervisor_version |-> NULL,
      test_date |-> Variants[k].test_date] :
        prNumber \in ClassifiedPRs, k \in 1..Len(Variants)}

InitClassify ==
    /\ github = [prNumber \in PRNumbers |-> << >>]
    /\ test_results \in {rows \in SUBSET StoredResults : Cardinality(rows) <= MaxStored}
    /\ nextId = Len(Variants) * NumPRs + 1
    /\ scr = [p \in Scrapers |-> IdleScraper]
    /\ ServerIdle

\* the handler: the failures of the PR, each with its count query
GetPRTestFailures(prNumber) ==
    /\ reqPR' = prNumber
    /\ response' = {Classified(test_results, failure, prNumber) :
                       failure \in {r \in test_results : r.pr_number = prNumber}}
    /\ UNCHANGED <<tr, fact, path, now, summary>>
    /\ ScraperUnchanged

----------------------------------------------------------------------------
(* server/src/index.ts: GET /api/test-failures/summary *)

\* days since 2024-01-01 of a stored test_date; the server clock now counts
\* the same days
DayOf(test_date) ==
    CASE test_date[1] = "2024-01-01" -> 0
      [] test_date[1] = "2023-12-20" -> 0 - 12
      [] OTHER -> 0

\* test_date >= DATE_SUB(NOW(), INTERVAL 7 DAY)
WithinLastWeek(test_date, clock) == DayOf(test_date) >= clock - 7

Group(rows, testName, testFile) ==
    {r \in rows : r.test_name = testName /\ NullSafeEq(r.test_file, testFile)}

\* HAVING pr_count > 2
HavingPRCount(pr_count) == pr_count > 2

\* GROUP BY test_name, test_file HAVING pr_count > 2; the model never holds
\* the 20 groups of the LIMIT
CommonFailures(rows) ==
    {[test_name |-> g[1], test_file |-> g[2],
      occurrence_count |-> Cardinality(Group(rows, g[1], g[2])),
      pr_count |-> Cardinality({r.pr_number : r \in Group(rows, g[1], g[2])})] :
        g \in {h \in {<<r.test_name, r.test_file>> : r \in rows} :
                 HavingPRCount(Cardinality({r.pr_number : r \in Group(rows, h[1], h[2])}))}}

\* the rows of the last 7 days with other_pr_count and is_common; the model
\* never holds the 50 rows of the LIMIT
RecentFailures(rows, clock) ==
    {[id |-> tf.id, pr_number |-> tf.pr_number, test_name |-> tf.test_name,
      test_file |-> tf.test_file, result |-> tf.result, hypervisor |-> tf.hypervisor,
      other_pr_count |-> OtherPRCount(rows, tf.test_name, tf.pr_number),
      is_common |-> OtherPRCount(rows, tf.test_name, tf.pr_number) >= 2] :
        tf \in {r \in rows : WithinLastWeek(r.test_date, clock)}}

\* COUNT(*), COUNT(DISTINCT test_name), COUNT(DISTINCT pr_number); the
\* rounded quotient avg_failures_per_pr is left out
Stats(rows) ==
    [total_failures |-> Cardinality(rows),
     unique_tests |-> Cardinality({r.test_name : r \in rows}),
     prs_affected |-> Cardinality({r.pr_number : r \in rows})]

\* WHERE hypervisor IS NOT NULL GROUP BY hypervisor, hypervisor_version
ByHypervisor(rows) ==
    {[hypervisor |-> g[1], hypervisor_version |-> g[2],
      failure_count |-> Cardinality({r \in rows : r.hypervisor = g[1]
                                                  /\ r.hypervisor_version = g[2]})] :
        g \in {<<r.hypervisor, r.hypervisor_version>> : r \in {q \in rows : q.hypervisor # NULL}}}

GetSummary ==
    /\ summary' = [present |-> TRUE,
                   stats |-> Stats(test_results),
                   commonFailures |-> CommonFailures(test_results),
                   recentFailures |-> RecentFailures(test_results, now),
                   byHypervisor |-> ByHypervisor(test_results)]
    /\ UNCHANGED <<tr, fact, path, now, reqPR, response>>
    /\ ScraperUnchanged

NextClassify ==
    \/ \E prNumber \in ClassifiedPRs : GetPRTestFailures(prNumber)
    \/ GetSummary

SpecClassify == InitClassify /\ [][NextClassify]_vars

----------------------------------------------------------------------------
(* Claims about the failure classification *)

\* the PRs other than prNumber that have a record with exactly this name
OtherPRsWith(testName, prNumber) ==
    {n \in ClassifiedPRs : /\ n # prNumber
                           /\ \E r \in test_results : r.pr_number = n /\ r.test_name = testName}

PRsOf(testName) == {r.pr_number : r \in {q \in test_results : q.test_name = testName}}

ExampleClassified ==
    /\ reqPR = 1
    /\ PRsOf("test_x") = {1, 2, 3}

----------------------------------------------------------------------------
(* server/src/index.ts: the hypervisor / version normalisation on its own *)

\* Mutant: the last character is split off as the version whenever it is a
\* digit, whatever the version field holds
NormalizedPairLastDigit(hypervisor, version) ==
    IF Truthy(hypervisor) /\ Len(hypervisor) >= 2 /\ IsDigit(hypervisor[Len(hypervisor)])
    THEN [hypervisor |-> toUpperCase(SubSeq(hypervisor, 1, Len(hypervisor) - 1)),
          version |-> <<hypervisor[Len(hypervisor)]>>]
    ELSE [hypervisor |-> DisplayHypervisor(hypervisor), version |-> OrNull(version)]

\* what a fact carries for a stored (hypervisor, version)
NormalizedPair(hypervisor, version) ==
    LET hv == NormalizeHypervisor(hypervisor, version)
    IN [hypervisor |-> DisplayHypervisor(hv.hypervisor), version |-> OrNull(hv.version)]

WordChars == {"k", "X", "8"}
Words == UNION {[1..n -> WordChars] : n \in 0..MaxWord}
RawVersions == {NULL, << >>, <<"o", "l", "8">>}

InitNormalize ==
    /\ ScraperIdle
    /\ tr \in [hypervisor : Words \cup {NULL}, version : RawVersions]
    /\ fact = NoFact
    /\ path = "none"
    /\ now = 0
    /\ reqPR = 0
    /\ response = {}
    /\ summary = NoSummary
    /\ flaky_tests_summary = {}
    /\ lastFlakyRun = -1
    /\ db = NoHealthData
    /\ console = << >>
    /\ HostIdle

Normalize ==
    /\ path = "none"
    /\ fact' = NormalizedPair(tr.hypervisor, tr.version)
    /\ path' = "normalized"
    /\ UNCHANGED <<tr, now, reqPR, response, summary>>
    /\ ScraperUnchanged

\* the normaliser applied to its own output
Renormalize ==
    /\ path = "normalized"
    /\ fact' = NormalizedPair(fact.hypervisor, fact.version)
    /\ path' = "renormalized"
    /\ UNCHANGED <<tr, now, reqPR, response, summary>>
    /\ ScraperUnchanged

NextNormalize == Normalize \/ Renormalize

SpecNormalize == InitNormalize /\ [][NextNormalize]_vars

\* C11: normalising the (hypervisor, version) that the normaliser returned
\* gives the same (hypervisor, version) again, for every stored hypervisor
\* and version.
NormalizeIdempotent ==
    [][Renormalize => (fact'.hypervisor = fact.hypervisor /\ fact'.version = fact.version)]_vars

\* C11 witness: a name with a version suffix was split, and the result was
\* normalised again.
SplitRenormalized ==
    /\ path = "renormalized"
    /\ tr.hypervisor = <<"k", "X", "8">>
    /\ fact.hypervisor = <<"K", "X">>
    /\ fact.version = <<"8">>

----------------------------------------------------------------------------
(* Further claims about the smoke-test facts *)

\* C12: extracting from the same stored comment row again, at any later
\* time and after any other extractions, gives a fact identical in every
\* field, createdAt included: a parse path that runs again answers what it
\* answered before.
ExtractionDeterministic ==
    [][(path # "none" /\ path' = path) => fact' = fact]_vars

----------------------------------------------------------------------------
(* scrape-github-prs.js: the comment classifiers and parsers on their own *)

ShortRow(cells) == [kind |-> "row", cells |-> cells]

\* the comments of the scraper runs, a comment without body, and a Trillian
\* comment whose table rows miss cells
ExtractComments ==
    Comments
    \cup {[marker |-> FALSE, codecov |-> FALSE, user |-> u, env |-> NULL, logs |-> NULL,
           created_at |-> ts, lines |-> NULL, zip |-> << >>] : ts \in IsoStamps, u \in Users}
    \cup {[marker |-> TRUE, codecov |-> FALSE, user |-> u, env |-> NULL, logs |-> NULL,
           created_at |-> ts,
           lines |-> <<HeaderLine, SepLine, ShortRow(<<"test_x", "<bt>Error<bt>">>),
                       ShortRow(<<"test_y">>), ShortRow(<<"", "", "", "">>)>>,
           zip |-> << >>] : ts \in IsoStamps, u \in Users}

InitExtract ==
    /\ ScraperIdle
    /\ tr \in ExtractComments
    /\ fact = NoFact
    /\ path = "none"
    /\ now = 0
    /\ reqPR = 0
    /\ response = {}
    /\ summary = NoSummary
    /\ flaky_tests_summary = {}
    /\ lastFlakyRun = -1
    /\ db = NoHealthData
    /\ console = << >>
    /\ HostIdle

ExtractCodecov ==
    /\ fact' = parseCodecovComment(tr)
    /\ path' = "codecov"
    /\ UNCHANGED <<tr, now, reqPR, response, summary>>
    /\ ScraperUnchanged

ExtractTrillian ==
    /\ fact' = parseTrillianComment(tr)
    /\ path' = "trillian"
    /\ UNCHANGED <<tr, now, reqPR, response, summary>>
    /\ ScraperUnchanged

ExtractFailures ==
    /\ fact' = [present |-> TRUE, failures |-> parseTestFailures(tr.lines)]
    /\ path' = "failures"
    /\ UNCHANGED <<tr, now, reqPR, response, summary>>
    /\ ScraperUnchanged

NextExtract == ExtractCodecov \/ ExtractTrillian \/ ExtractFailures

SpecExtract == InitExtract /\ [][NextExtract]_vars

\* C13: for every comment, however malformed (missing body, missing author
\* object, table rows with missing cells), parseCodecovComment,
\* parseTrillianComment and parseTestFailures return null or a value and
\* never throw.
ExtractorsNeverThrow ==
    path \in {"codecov", "trillian", "failures"} => fact # TypeError

----------------------------------------------------------------------------
(* scrape-github-prs.js: one run over several open PRs *)

\* Trillian comments with an environment and an archive, and the plain
\* comment of a missing author on which processPR gives up
WalkComments ==
    {c \in Comments : \/ c.marker /\ c.env # NULL /\ c.logs # NULL
                      \/ ~c.marker /\ ~c.codecov /\ c.user = NULL}

InitWalk ==
    /\ github \in [1..NumScraped -> {<<c>> : c \in WalkComments}]
    /\ test_results = {}
    /\ nextId = 1
    /\ scr = [p \in Scrapers |-> IdleScraper]
    /\ ServerIdle

SpecWalk == InitWalk /\ [][Next]_vars

\* the PR the run is at
CurrentPR == fetchOpenPRs[scr[1].pi]

Pending == scr[1].stf \o scr[1].art

Written == {r \in test_results' : r \notin test_results}

\* C14: within one run PRs are processed strictly one at a time: every
\* lookup and write of the run is for the PR it is at, the run moves to
\* the next PR only with nothing pending for the one it leaves, and within
\* the run it never returns to an earlier PR.
OnePRAtATime ==
    [][/\ \A r \in Written : scr[1].pi >= 1 /\ r.pr_number = CurrentPR
       /\ \A i \in 1..Len(Pending) : Pending[i].pr_number = CurrentPR
       /\ scr'[1].pi # scr[1].pi => (scr'[1].stf = << >> /\ scr'[1].art = << >>)
       /\ scr'[1].runs = scr[1].runs =>
             (scr'[1].pi >= scr[1].pi \/ scr'[1].pc = "idle")]_vars

\* C14 witness: one run has stored rows for the first PR and then for the
\* second.
WalkedBothPRs ==
    /\ scr[1].runs = 1
    /\ scr[1].pc = "idle"
    /\ \E r1, r2 \in test_results :
          r1.pr_number = 1 /\ r2.pr_number = 2 /\ r1.id < r2.id

----------------------------------------------------------------------------
(* Further claims about the failure classification *)

SelectedCommon(testName) == \E g \in summary.commonFailures : g.test_name = testName

\* C15: one threshold on one count decides "common" everywhere: a test is
\* among the commonFailures of the summary exactly when its failures are
\* flagged is_common by the per-PR endpoint and by the recentFailures of
\* the summary.
OneThresholdEverywhere ==
    summary.present =>
        /\ \A f \in summary.recentFailures : f.is_common <=> SelectedCommon(f.test_name)
        /\ \A f \in response : f.is_common <=> SelectedCommon(f.test_name)

\* the PRs other than prNumber with a record of the test that is not a
\* passed or skipped one
FailingOtherPRs(testName, prNumber) ==
    {n \in ClassifiedPRs :
        /\ n # prNumber
        /\ \E r \in test_results : /\ r.pr_number = n
                                   /\ r.test_name = testName
                                   /\ r.result \notin {"Success", "Skip"}}

\* C18: the occurrence count counts, besides the PR itself, only the other
\* PRs that recorded the test as failing; a PR whose only records for the
\* test name have result Success or Skip adds nothing to the count or to
\* the common / unique label.
OnlyFailingPRsCount ==
    \A f \in response :
        /\ f.occurrence_count = Cardinality(FailingOtherPRs(f.test_name, reqPR)) + 1
        /\ f.is_common <=> Cardinality(FailingOtherPRs(f.test_name, reqPR)) >= 2

----------------------------------------------------------------------------
(* scripts/update-flaky-tests-summary.js.  The clock now counts days since *)
(* 2024-01-01, a month is 30 days; time_seconds and logs_url, and with     *)
(* them last_failure_log_url, are not part of the rows.                    *)

\* test_date >= DATE_SUB(NOW(), INTERVAL 1 MONTH)
WithinLastMonth(test_date, clock) == test_date # NULL /\ DayOf(test_date) >= clock - 30

\* last_run_date < DATE_SUB(NOW(), INTERVAL 2 MONTH)
OlderThanTwoMonths(last_run_date, clock) ==
    last_run_date # NULL /\ DayOf(last_run_date) < clock - 60

FlakyKey(r) == <<r.test_name, r.test_file, r.hypervisor, r.hypervisor_version>>

\* MAX(test_date) over a set of dates, NULL over none
MaxDate(dates) ==
    IF dates = {} THEN NULL
    ELSE CHOOSE d \in dates : \A e \in dates : DayOf(e) <= DayOf(d)

\* GROUP_CONCAT(DISTINCT pr_number ORDER BY pr_number DESC)
RECURSIVE SortDesc(_)
SortDesc(numbers) ==
    IF numbers = {} THEN << >>
    ELSE LET top == CHOOSE n \in numbers : \A k \in numbers : k <= n
         IN <<top>> \o SortDesc(numbers \ {top})

\* the rows the SELECT reads
FlakySource(rows, clock) ==
    {r \in rows : /\ WithinLastMonth(r.test_date, clock)
                  /\ r.result \in {"Failure", "Success", "Error"}}

\* one group of GROUP BY test_name, test_file, hypervisor, hypervisor_version
Aggregate(group) ==
    LET any == CHOOSE r \in group : TRUE
        with(result) == {r \in group : r.result = result}
    IN [test_name |-> any.test_name, test_file |-> any.test_file,
        hypervisor |-> any.hypervisor, hypervisor_version |-> any.hypervisor_version,
        total_runs |-> Cardinality(group),
        failure_count |-> Cardinality(with("Failure")),
        success_count |-> Cardinality(with("Success")),
        error_count |-> Cardinality(with("Error")),
        last_failure_date |-> MaxDate({r.test_date : r \in with("Failure")}),
        last_success_date |-> MaxDate({r.test_date : r \in with("Success")}),
        last_run_date |-> MaxDate({r.test_date : r \in group}),
        pr_numbers |-> SortDesc({r.pr_number : r \in group})]

\* HAVING failure_count > 1
HavingFailures(agg) == agg.failure_count > 1

Aggregates(rows, clock) ==
    {agg \in {Aggregate({r \in FlakySource(rows, clock) : FlakyKey(r) = key}) :
                 key \in {FlakyKey(r) : r \in FlakySource(rows, clock)}} :
        HavingFailures(agg)}

\* UNIQUE KEY idx_unique_test: a NULL column equals nothing
SameUniqueKey(row, agg) ==
    /\ row.test_name = agg.test_name
    /\ SqlEq(row.test_file, agg.test_file)
    /\ SqlEq(row.hypervisor, agg.hypervisor)
    /\ SqlEq(row.hypervisor_version, agg.hypervisor_version)

FlakyRow(agg, id) ==
    [id |-> id, test_name |-> agg.test_name, test_file |-> agg.test_file,
     hypervisor |-> agg.hypervisor, hypervisor_version |-> agg.hypervisor_version,
     total_runs |-> agg.total_runs, failure_count |-> agg.failure_count,
     success_count |-> agg.success_count, error_count |-> agg.error_count,
     last_failure_date |-> agg.last_failure_date,
     last_success_date |-> agg.last_success_date,
     last_run_date |-> agg.last_run_date, pr_numbers |-> agg.pr_numbers]

NextFlakyId(table) ==
    IF table = {} THEN 1 ELSE 1 + (CHOOSE n \in {r.id : r \in table} : \A r \in table : r.id <= n)

\* INSERT ... ON DUPLICATE KEY UPDATE, aggregate by aggregate
RECURSIVE Upsert(_, _)
Upsert(table, aggs) ==
    IF aggs = {} THEN table
    ELSE LET agg == CHOOSE a \in aggs : TRUE
             hit == {row \in table : SameUniqueKey(row, agg)}
         IN Upsert(IF hit = {}
                   THEN table \cup {FlakyRow(agg, NextFlakyId(table))}
                   ELSE {IF row \in hit THEN FlakyRow(agg, row.id) ELSE row : row \in table},
                   aggs \ {agg})

\* a Failure, Success or Error of test_x in test_a.py, with or without a
\* hypervisor, on either of two dates
FlakyResults ==
    {[id |-> 0, pr_number |-> prNumber, test_name |-> "test_x",
      test_file |-> <<"test_a.py">>, result |-> res, hypervisor |-> hv,
      hypervisor_version |-> NULL, test_date |-> <<day, " ", "10:00:00">>] :
        prNumber \in {1, 2}, res \in {"Failure", "Success", "Error"},
        hv \in {NULL, <<"k", "v", "m">>}, day \in {"2024-01-01", "2023-12-20"}}

RECURSIVE Numbered(_, _)
Numbered(rows, id) ==
    IF rows = {} THEN {}
    ELSE LET r == CHOOSE q \in rows : TRUE
         IN {[r EXCEPT !.id = id]} \cup Numbered(rows \ {r}, id + 1)

InitFlaky ==
    /\ github = [prNumber \in PRNumbers |-> << >>]
    /\ test_results \in {Numbered(rows, 1) :
                            rows \in {t \in SUBSET FlakyResults :
                                         /\ Cardinality(t) <= MaxFlakyRows
                                         /\ \A r1, r2 \in t : FullKey(r1) = FullKey(r2) => r1 = r2}}
    /\ nextId = MaxFlakyRows + 1
    /\ scr = [p \in Scrapers |-> IdleScraper]
    /\ ServerIdle
    /\ flaky_tests_summary = {}
    /\ lastFlakyRun = -1
    /\ db = NoHealthData
    /\ console = << >>
    /\ HostIdle

\* one run of the script: the DELETE, then the INSERT ... SELECT; the
\* model takes one run per value of the clock
updateFlakyTestsSummary ==
    /\ lastFlakyRun < now
    /\ flaky_tests_summary' =
          Upsert({row \in flaky_tests_summary : ~OlderThanTwoMonths(row.last_run_date, now)},
                 Aggregates(test_results, now))
    /\ lastFlakyRun' = now
    /\ UNCHANGED <<github, test_results, nextId, scr, tr, fact, path, now, reqPR, response,
                   summary, db, console, hostVars>>

\* the days between two runs of the cron job
DaysPass ==
    /\ now < MaxDays
    /\ now' = now + 20
    /\ UNCHANGED <<github, test_results, nextId, scr, tr, fact, path, reqPR, response,
                   summary, flaky_tests_summary, lastFlakyRun, db, console, hostVars>>

NextFlaky == updateFlakyTestsSummary \/ DaysPass

SpecFlaky == InitFlaky /\ [][NextFlaky]_vars

\* the rows of the last month that a summary row stands for
CurrentGroup(row) ==
    {r \in test_results : /\ DayOf(r.test_date) >= now - 30
                          /\ r.result \in {"Failure", "Success", "Error"}
                          /\ FlakyKey(r) = FlakyKey(row)}

\* C16: once a run of update-flaky-tests-summary.js has completed, every
\* row of flaky_tests_summary carries the counts of the last month's
\* test_results for its (test_name, test_file, hypervisor,
\* hypervisor_version); no row keeps counts of an earlier run.
SummaryRowsCurrent ==
    lastFlakyRun = now =>
        \A row \in flaky_tests_summary :
            /\ row.total_runs = Cardinality(CurrentGroup(row))
            /\ row.failure_count =
                  Cardinality({r \in CurrentGroup(row) : r.result = "Failure"})
            /\ row.success_count =
                  Cardinality({r \in CurrentGroup(row) : r.result = "Success"})
            /\ row.error_count =
                  Cardinality({r \in CurrentGroup(row) : r.result = "Error"})

----------------------------------------------------------------------------
(* GET /api/ready-to-merge over getHealthPRsFromDatabase.  Timestamps of the
   three tables are day numbers; pr_title is what /(\d+\.\d+)/ matches in the
   title, NULL when the title has no version. *)

HealthPRs == {1, 2}

LabelRow(prNumber, title, state, insertedAt) ==
    [pr_number |-> prNumber, pr_title |-> title, label_name |-> "type:healthcheckrun",
     pr_state |-> state, inserted_at |-> insertedAt]

\* contents of pr_health_labels
LabelWorlds ==
    {{LabelRow(1, <<"4.20">>, "open", 1), LabelRow(2, <<"4.21">>, "open", 2)},
     {LabelRow(1, <<"4.20">>, "open", 1), LabelRow(2, <<"4.20">>, "open", 2)},
     {LabelRow(1, NULL, "open", 1), LabelRow(2, <<"4.20">>, "closed", 2)},
     {LabelRow(1, <<"4.20">>, "open", 1), LabelRow(1, <<"4.20">>, "open", 3),
      LabelRow(2, NULL, "open", 2)}}

\* a Trillian body with the given "look OK" and "have errors" tokens
ReadyComment(ok, errors) ==
    [ok |-> ok, errors |-> errors, skipped |-> NoMatch, zip |-> NULL, lines |-> << >>]

\* "1 look OK, 0 have errors", "1 look OK, 1 have errors", and a body with
\* "Trillian test result" and "1 have errors" but no "look OK"
ReadyComments == {ReadyComment(1, 0), ReadyComment(1, 1), ReadyComment(NoMatch, 1)}

TrillianRow(comment) ==
    [hypervisor |-> <<"k", "v", "m">>, version |-> NULL, logs_url |-> NULL,
     trillian_created_at |-> 2, trillian_comment |-> comment]

\* rows of pr_trillian_comments of one PR
TrillianRowSeqs == SeqsUpTo({TrillianRow(c) : c \in ReadyComments}, MaxTrillianRows)

Review(login, state, createdAt) ==
    [approver_login |-> login, approval_state |-> state, approval_created_at |-> createdAt]

\* rows of pr_approvals of one PR
ReviewWorlds ==
    {{},
     {Review("r1", "APPROVED", 1), Review("r2", "APPROVED", 2)},
     {Review("r1", "APPROVED", 1), Review("r2", "APPROVED", 2), Review("r3", "APPROVED", 4)},
     {Review("r1", "APPROVED", 1), Review("r2", "APPROVED", 2),
      Review("r3", "CHANGES_REQUESTED", 3)},
     {Review("r1", "CHANGES_REQUESTED", 1), Review("r1", "APPROVED", 3),
      Review("r2", "APPROVED", 2)},
     {Review("r1", "APPROVED", 1), Review("r2", "COMMENTED", 2)}}

\* SELECT DISTINCT ... WHERE label_name = 'type:healthcheckrun' AND pr_state = 'open'
\* ORDER BY inserted_at DESC
RECURSIVE OrderByInsertedDesc(_)
OrderByInsertedDesc(rows) ==
    IF rows = {} THEN << >>
    ELSE LET first == CHOOSE r \in rows : \A q \in rows : q.inserted_at <= r.inserted_at
         IN <<first>> \o OrderByInsertedDesc(rows \ {first})

HealthLabelQuery(labels) ==
    OrderByInsertedDesc({l \in labels : l.label_name = "type:healthcheckrun"
                                        /\ l.pr_state = "open"})

\* latestPRs: the first row of each PR number
LatestPRs(rows) ==
    SelectSeq(rows, LAMBDA row :
        row = rows[CHOOSE i \in 1..Len(rows) :
                      /\ rows[i].pr_number = row.pr_number
                      /\ \A j \in 1..(i - 1) : rows[j].pr_number # row.pr_number])

VersionKey(row) ==
    IF row.pr_title # NULL THEN row.pr_title ELSE <<"pr_", ToString(row.pr_number)>>

\* versionMap: per title version the most recently inserted PR, in the order
\* in which the keys were first set
RECURSIVE VersionMap(_, _, _)
VersionMap(rows, i, map) ==
    IF i > Len(rows) THEN map
    ELSE LET row == rows[i]
             at == {k \in 1..Len(map) : VersionKey(map[k]) = VersionKey(row)}
         IN IF at = {}
            THEN VersionMap(rows, i + 1, Append(map, row))
            ELSE LET k == CHOOSE k \in at : TRUE
                 IN IF row.inserted_at > map[k].inserted_at
                    THEN VersionMap(rows, i + 1, [map EXCEPT ![k] = row])
                    ELSE VersionMap(rows, i + 1, map)

\* the approvals query: per approver the reviews with the latest
\* approval_created_at; [] when the query fails
LatestReviews(rows, failed) ==
    IF failed THEN {}
    ELSE {r \in rows : \A q \in rows :
             q.approver_login = r.approver_login
                => q.approval_created_at <= r.approval_created_at}

CountState(reviewResults, state) ==
    Cardinality({r \in reviewResults : r.approval_state = state})

MaxOf(numbers) == CHOOSE n \in numbers : \A m \in numbers : m <= n

\* one PRData of getHealthPRsFromDatabase
HealthPRData(row, failed) ==
    LET trillianResults == db.pr_trillian_comments[row.pr_number]
        reviewResults == LatestReviews(db.pr_approvals[row.pr_number], failed)
        parsed == [i \in 1..Len(trillianResults) |-> getHealthSmokeTest(trillianResults[i])]
        smokeTests == SelectSeq(parsed, LAMBDA test : test # NoFact)
        timestamps == {row.inserted_at}
                      \cup {trillianResults[i].trillian_created_at : i \in 1..Len(trillianResults)}
                      \cup {r.approval_created_at : r \in reviewResults}
    IN [number |-> row.pr_number,
        title |-> row.pr_title,
        createdAt |-> row.inserted_at,
        updatedAt |-> MaxOf(timestamps),
        approvals |-> [approved |-> CountState(reviewResults, "APPROVED"),
                       changesRequested |-> CountState(reviewResults, "CHANGES_REQUESTED"),
                       commented |-> CountState(reviewResults, "COMMENTED")],
        smokeTests |-> smokeTests]

getHealthPRsFromDatabase(failed) ==
    LET rows == HealthLabelQuery(db.pr_health_labels)
        kept == VersionMap(LatestPRs(rows), 1, << >>)
    IN [i \in 1..Len(kept) |-> HealthPRData(kept[i], failed)]

IsReadyToMerge(pr) ==
    /\ pr.approvals.approved >= 2
    /\ pr.approvals.changesRequested = 0
    /\ Len(pr.smokeTests) > 0
    /\ \A i \in 1..Len(pr.smokeTests) : pr.smokeTests[i].status = "OK"

\* readyPRs.sort: approvals descending, then updatedAt descending; stable
SortsBefore(a, b) ==
    IF b.approvals.approved # a.approvals.approved
    THEN a.approvals.approved > b.approvals.approved
    ELSE a.updatedAt > b.updatedAt

RECURSIVE SortReady(_)
SortReady(prs) ==
    IF Len(prs) = 0 THEN << >>
    ELSE LET i == CHOOSE i \in 1..Len(prs) :
                     /\ \A j \in 1..Len(prs) : ~SortsBefore(prs[j], prs[i])
                     /\ \A j \in 1..(i - 1) : SortsBefore(prs[i], prs[j])
             rest == [k \in 1..(Len(prs) - 1) |-> IF k < i THEN prs[k] ELSE prs[k + 1]]
         IN <<prs[i]>> \o SortReady(rest)

InitReady ==
    /\ ScraperIdle
    /\ tr = NoRow
    /\ fact = NoFact
    /\ path = "none"
    /\ now = 0
    /\ reqPR = 0
    /\ response = << >>
    /\ summary = NoSummary
    /\ flaky_tests_summary = {}
    /\ lastFlakyRun = -1
    /\ console = << >>
    /\ HostIdle
    /\ \E labels \in LabelWorlds :
       \E trillian \in [HealthPRs -> TrillianRowSeqs] :
       \E approvals \in [HealthPRs -> ReviewWorlds] :
          db = [pr_health_labels |-> labels,
                pr_trillian_comments |-> trillian,
                pr_approvals |-> approvals]

\* GET /api/ready-to-merge
GetReadyToMerge ==
    /\ \E failed \in BOOLEAN :
          response' = SortReady(SelectSeq(getHealthPRsFromDatabase(failed), IsReadyToMerge))
    /\ path' = "ready"
    /\ UNCHANGED <<tr, fact, now, reqPR, summary>>
    /\ ScraperUnchanged

\* GET /api/health-prs
GetHealthPRs ==
    /\ \E failed \in BOOLEAN : response' = getHealthPRsFromDatabase(failed)
    /\ path' = "health-prs"
    /\ UNCHANGED <<tr, fact, now, reqPR, summary>>
    /\ ScraperUnchanged

NextReady == GetReadyToMerge \/ GetHealthPRs

SpecReady == InitReady /\ [][NextReady]_vars

\* the stored Trillian comments of a PR that report one or more errors
ErrorComments(prNumber) ==
    {i \in 1..Len(db.pr_trillian_comments[prNumber]) :
        LET comment == db.pr_trillian_comments[prNumber][i].trillian_comment
        IN ErrorMatch(comment) /\ comment.errors > 0}

\* C17: every PR that GET /api/ready-to-merge returns has at least 2 APPROVED
\* reviews, no CHANGES_REQUESTED review, at least one smoke-test result, all
\* of them passing, and no stored smoke-test comment that reports one or more
\* errors.
ReadyOnlyQualified ==
    path = "ready" =>
        \A i \in 1..Len(response) :
            /\ response[i].approvals.approved >= 2
            /\ response[i].approvals.changesRequested = 0
            /\ Len(response[i].smokeTests) > 0
            /\ \A k \in 1..Len(response[i].smokeTests) :
                  response[i].smokeTests[k].status = "OK"
            /\ ErrorComments(response[i].number) = {}

----------------------------------------------------------------------------
(* Claims about comments whose failed-test names cannot all be extracted *)

\* neither the table scan nor the fallback pattern of any path finds a name
NoNamesFound(comment) ==
    /\ HealthTableScan(comment.lines, 1, FALSE, << >>) = << >>
    /\ PRRowScan(comment.lines, 1, << >>) = << >>
    /\ FallbackScan(comment.lines, 1, << >>) = << >>

\* C19: when the comment has a "look OK" token, reports errors > 0 and no
\* strategy yields a test name, the parse path that ran returned a fact and
\* its failedTests is the empty list.
EmptyFailedTestsReturned ==
    (Parsed /\ OkMatch(Body) /\ ErrorMatch(Body) /\ Body.errors > 0 /\ NoNamesFound(Body))
        => (fact # NoFact /\ fact.failedTests = << >>)

\* C20: when the single-PR path has parsed a comment with a "look OK" token
\* whose number of extracted failed-test names differs from its reported
\* errors count, a warning was logged and the fact was returned.
MismatchWarnedAndReturned ==
    (path = "pr" /\ OkMatch(Body) /\ ErrorMatch(Body)
                 /\ Len(PRFailedTests(Body)) # Body.errors)
        => (console # << >> /\ fact # NoFact)

----------------------------------------------------------------------------
(* Claims about where the table scan ends *)

\* the blank lines that follow a table header
BlanksAfterHeader(lines) ==
    {i \in 1..Len(lines) :
        /\ lines[i].kind = "blank"
        /\ \E h \in 1..(i - 1) : lines[h].kind \in {"header", "loosehdr"}}

\* the lines up to the first blank line after the header, all lines if there
\* is none
UpToFirstBlank(lines) ==
    IF BlanksAfterHeader(lines) = {} THEN lines
    ELSE SubSeq(lines, 1, (CHOOSE i \in BlanksAfterHeader(lines) :
                              \A j \in BlanksAfterHeader(lines) : i <= j))

\* C21: every failed test name of a fact returned by the health path comes
\* from a line that is not after the first blank line following the table
\* header.
ScanStopsAtBlank ==
    (Returned /\ path = "health" /\ fact.failedTests # NULL)
        => \A k \in 1..Len(fact.failedTests) :
              \E i \in 1..Len(UpToFirstBlank(Body.lines)) :
                 \/ Body.lines[i].cells[1] = fact.failedTests[k]
                 \/ FallbackName(Body.lines[i]) = fact.failedTests[k]



----------------------------------------------------------------------------
(* scrape-github-prs.js and update-pr-states.js over pr_health_labels,
   pr_states and pr_codecov_comments, one step per awaited call.  pr_states
   is kept as a sequence in the order of last_checked, oldest first; its
   rows and those of pr_codecov_comments are unique per pr_number, as the
   ON DUPLICATE KEY UPDATE clauses of their INSERTs presume.  The pull
   requests of these runs have no reviews and no Trillian comments. *)

HealthLabel == <<"type:healthcheckrun">>

IssueComment(codecov, user, body) ==
    [marker |-> FALSE, codecov |-> codecov, user |-> user, env |-> NULL, logs |-> NULL,
     created_at |-> <<"2024-01-01", "T", "10:00:00", "Z">>, lines |-> body, zip |-> << >>]

PlainComment(user) == IssueComment(FALSE, user, <<"LGTM">>)
CoverageComment(body) == IssueComment(TRUE, <<"codecov", "[bot]">>, <<body>>)

\* a pull request on GitHub; unreachable says that every request for its
\* details fails
PullRequest(state, labels, comments, unreachable) ==
    [state |-> state, labels |-> labels, reviews |-> << >>, comments |-> comments,
     unreachable |-> unreachable]

NoTables ==
    [pr_health_labels |-> {}, pr_states |-> << >>, pr_codecov_comments |-> {}]

\* INSERT INTO pr_health_labels, one row per label, a NULL label when there
\* are none
LabelRows(prNumber, labels, state) ==
    IF Len(labels) > 0
    THEN {[pr_number |-> prNumber, label_name |-> labels[i], pr_state |-> state] :
             i \in 1..Len(labels)}
    ELSE {[pr_number |-> prNumber, label_name |-> NULL, pr_state |-> state]}

WithoutPR(states, prNumber) == SelectSeq(states, LAMBDA row : row.pr_number # prNumber)

HasState(states, prNumber) == \E i \in 1..Len(states) : states[i].pr_number = prNumber

StateOf(states, prNumber) ==
    states[CHOOSE i \in 1..Len(states) : states[i].pr_number = prNumber].pr_state

\* updatePRHealthLabels: INSERT ... ON DUPLICATE KEY UPDATE pr_state, last_checked = NOW()
UpsertState(states, prNumber, state) ==
    Append(WithoutPR(states, prNumber), [pr_number |-> prNumber, pr_state |-> state])

\* storePRApprovals: INSERT ... 'open' ... ON DUPLICATE KEY UPDATE pr_title, last_checked
EnsureState(states, prNumber) ==
    Append(WithoutPR(states, prNumber),
           [pr_number |-> prNumber,
            pr_state |-> IF HasState(states, prNumber) THEN StateOf(states, prNumber)
                         ELSE "open"])

\* UPDATE pr_states SET pr_state = ?, last_checked = NOW() WHERE pr_number = ?
UpdateState(states, prNumber, state) ==
    IF HasState(states, prNumber) THEN UpsertState(states, prNumber, state) ELSE states

\* UPDATE pr_states SET assignees = ?, last_checked = NOW() WHERE pr_number = ?
TouchState(states, prNumber) ==
    IF HasState(states, prNumber)
    THEN UpsertState(states, prNumber, StateOf(states, prNumber))
    ELSE states

\* UPDATE pr_health_labels SET pr_state = ? WHERE pr_number = ?
UpdateLabelState(labels, prNumber, state) ==
    {IF row.pr_number = prNumber THEN [row EXCEPT !.pr_state = state] ELSE row :
        row \in labels}

\* processPR: the first comment parseCodecovComment accepts, null if none
RECURSIVE FirstCodecov(_, _)
FirstCodecov(comments, i) ==
    IF i > Len(comments) THEN NoComment
    ELSE LET parsed == parseCodecovComment(comments[i])
         IN IF parsed.present THEN parsed ELSE FirstCodecov(comments, i + 1)

\* storeCodecovComment
StoreCodecov(rows, prNumber, codecovData) ==
    LET old == {row \in rows : row.pr_number = prNumber}
    IN IF ~codecovData.present
       THEN IF old = {}
            THEN rows \cup {[pr_number |-> prNumber, codecov_comment |-> NULL,
                             codecov_created_at |-> NULL, codecov_present |-> 0]}
            ELSE (rows \ old) \cup {[row EXCEPT !.codecov_present = 0] : row \in old}
       ELSE (rows \ old) \cup
            {[pr_number |-> prNumber, codecov_comment |-> codecovData.comment,
              codecov_created_at |-> ToMySQLDateTime(codecovData.created_at),
              codecov_present |-> 1]}

Modes == {"default", "all", "pr"}

IdleRun ==
    [pc |-> "idle", mode |-> "default", prs |-> << >>, i |-> 0, pr |-> NoJob,
     comments |-> << >>, visited |-> << >>, closedCheck |-> FALSE, open |-> << >>,
     k |-> 0, had |-> {}, last |-> NoJob, failed |-> {}, runs |-> 0]

IdleUpdater ==
    [pc |-> "idle", batch |-> << >>, i |-> 0, errors |-> 0, prData |-> NoJob,
     checked |-> {}, runs |-> 0]

Sc == job.scraper
Up == job.updater

TablesOnly ==
    UNCHANGED <<github, test_results, nextId, scr, tr, fact, path, now, reqPR, response,
                summary, flaky_tests_summary, lastFlakyRun, console, host, query>>

\* GET /pulls?state=open: the open pull requests, newest first
OpenOnGitHub == SortDesc({n \in DOMAIN gh : gh[n].state = "open"})

\* the step after processPR returns: the next PR of the list, then
\* handleClosedPRs in default mode
Advance(sc) ==
    IF sc.i < Len(sc.prs)
    THEN [sc EXCEPT !.pc = "details", !.i = @ + 1, !.pr = NoJob, !.comments = << >>]
    ELSE IF sc.mode = "default"
    THEN [sc EXCEPT !.pc = "select_health", !.pr = NoJob, !.comments = << >>]
    ELSE [sc EXCEPT !.pc = "done", !.pr = NoJob, !.comments = << >>]

\* what processPR leaves behind for the PR it was called for
Outcome(sc, outcome) ==
    [pr |-> sc.prs[sc.i], outcome |-> outcome, comments |-> sc.comments]

\* Mutant: an error in processPR ends the loop over the list
CaughtEndsRun(sc, outcome) ==
    [sc EXCEPT !.pc = "done", !.pr = NoJob, !.comments = << >>,
               !.last = Outcome(sc, outcome), !.failed = @ \cup {sc.prs[sc.i]}]

\* processPR: catch (error), then return
Caught(sc, outcome) ==
    Advance([sc EXCEPT !.last = Outcome(sc, outcome), !.failed = @ \cup {sc.prs[sc.i]}])

\* a request or statement of processPR fails
Fail(sc) == Caught(sc, "error")

\* a step of the scraper: it succeeds, or the request or statement fails
Step(ok, failed, dbOk) ==
    \/ /\ db' = dbOk
       /\ job' = [job EXCEPT !.scraper = ok]
    \/ /\ job.faults < MaxFaults
       /\ db' = db
       /\ job' = [job EXCEPT !.scraper = failed, !.faults = @ + 1]

\* main: connect, then fetchOpenPRs or the PR of --pr-number
RunMain(mode, prNumber) ==
    /\ Sc.pc \in {"idle", "done", "fatal"}
    /\ Sc.runs + Up.runs < MaxTableRuns
    /\ LET sc == [IdleRun EXCEPT !.mode = mode, !.runs = Sc.runs + 1,
                                 !.had = {row.pr_number : row \in db.pr_health_labels}]
           prs == IF mode = "pr" THEN <<prNumber>> ELSE OpenOnGitHub
       IN IF mode = "pr"
          THEN /\ db' = db
               /\ job' = [job EXCEPT !.scraper = [sc EXCEPT !.prs = prs, !.i = 1,
                                                            !.pc = "details"]]
          ELSE Step(IF Len(prs) > 0
                    THEN [sc EXCEPT !.prs = prs, !.i = 1, !.pc = "details"]
                    ELSE [sc EXCEPT !.pc = IF mode = "default" THEN "select_health"
                                           ELSE "done"],
                    [sc EXCEPT !.pc = "fatal"], db)
    /\ UNCHANGED gh
    /\ TablesOnly

\* processPR: fetchPRDetails
FetchDetails ==
    /\ Sc.pc = "details"
    /\ LET n == Sc.prs[Sc.i]
           sc == [Sc EXCEPT !.visited = Append(@, n)]
       IN IF gh[n].unreachable
          THEN /\ db' = db
               /\ job' = [job EXCEPT !.scraper = Fail(sc)]
          ELSE Step([sc EXCEPT !.pc = "delete",
                               !.pr = [state |-> gh[n].state, labels |-> gh[n].labels]],
                    Fail(sc), db)
    /\ UNCHANGED gh
    /\ TablesOnly

\* updatePRHealthLabels: DELETE FROM pr_health_labels WHERE pr_number = ?
DeleteLabels ==
    /\ Sc.pc = "delete"
    /\ Step([Sc EXCEPT !.pc = "insert"], Fail(Sc),
            [db EXCEPT !.pr_health_labels = {row \in @ : row.pr_number # Sc.prs[Sc.i]}])
    /\ UNCHANGED gh
    /\ TablesOnly

\* updatePRHealthLabels: the INSERTs into pr_health_labels
InsertLabels ==
    /\ Sc.pc = "insert"
    /\ Step([Sc EXCEPT !.pc = "states"], Fail(Sc),
            [db EXCEPT !.pr_health_labels =
                          @ \cup LabelRows(Sc.prs[Sc.i], Sc.pr.labels, Sc.pr.state)])
    /\ UNCHANGED gh
    /\ TablesOnly

\* updatePRHealthLabels: the upsert of pr_states
UpsertPRState ==
    /\ Sc.pc = "states"
    /\ Step([Sc EXCEPT !.pc = "reviews"], Fail(Sc),
            [db EXCEPT !.pr_states = UpsertState(@, Sc.prs[Sc.i], Sc.pr.state)])
    /\ UNCHANGED gh
    /\ TablesOnly

\* processPR: fetchPRReviews
FetchReviews ==
    /\ Sc.pc = "reviews"
    /\ Step([Sc EXCEPT !.pc = "ensure"], Fail(Sc), db)
    /\ UNCHANGED gh
    /\ TablesOnly

\* storePRApprovals: no review to insert, then the INSERT into pr_states
EnsurePRState ==
    /\ Sc.pc = "ensure"
    /\ Step([Sc EXCEPT !.pc = "comments"], Fail(Sc),
            [db EXCEPT !.pr_states = EnsureState(@, Sc.prs[Sc.i])])
    /\ UNCHANGED gh
    /\ TablesOnly

\* processPR: fetchPRComments
FetchComments ==
    /\ Sc.pc = "comments"
    /\ Step([Sc EXCEPT !.pc = "codecov", !.comments = gh[Sc.prs[Sc.i]].comments],
            Fail(Sc), db)
    /\ UNCHANGED gh
    /\ TablesOnly

\* processPR: the loop over parseCodecovComment, storeCodecovComment, and
\* the Trillian loops, which find no Trillian comment
StoreCodecovComment ==
    /\ Sc.pc = "codecov"
    /\ IF CodecovLoopThrows(Sc.comments, 1)
       THEN /\ db' = db
            /\ job' = [job EXCEPT !.scraper = Caught(Sc, "TypeError")]
       ELSE Step(Advance([Sc EXCEPT !.last = Outcome(Sc, "ok")]), Fail(Sc),
                 [db EXCEPT !.pr_codecov_comments =
                               StoreCodecov(@, Sc.prs[Sc.i], FirstCodecov(Sc.comments, 1))])
    /\ UNCHANGED gh
    /\ TablesOnly

\* handleClosedPRs: SELECT DISTINCT pr_number FROM pr_health_labels WHERE pr_state = 'open'
SelectHealthOpen ==
    /\ Sc.pc = "select_health"
    /\ Step([Sc EXCEPT !.pc = "select_states", !.closedCheck = TRUE,
                       !.open = SortDesc({row.pr_number : row \in
                                    {r \in db.pr_health_labels : r.pr_state = "open"}})],
            [Sc EXCEPT !.pc = "fatal", !.closedCheck = TRUE], db)
    /\ UNCHANGED gh
    /\ TablesOnly

\* the step after one PR of handleClosedPRs
NextOpen(sc) ==
    IF sc.k < Len(sc.open) THEN [sc EXCEPT !.pc = "check", !.k = @ + 1]
    ELSE [sc EXCEPT !.pc = "done"]

\* handleClosedPRs: SELECT DISTINCT pr_number FROM pr_states WHERE pr_state = 'open',
\* then the Set of both results
SelectStatesOpen ==
    /\ Sc.pc = "select_states"
    /\ LET more == SelectSeq([i \in 1..Len(db.pr_states) |-> db.pr_states[i]],
                             LAMBDA row : /\ row.pr_state = "open"
                                          /\ \A j \in 1..Len(Sc.open) :
                                                Sc.open[j] # row.pr_number)
           all == Sc.open \o [i \in 1..Len(more) |-> more[i].pr_number]
       IN Step(NextOpen([Sc EXCEPT !.open = all, !.k = 0]), [Sc EXCEPT !.pc = "fatal"], db)
    /\ UNCHANGED gh
    /\ TablesOnly

\* handleClosedPRs: fetchPRDetails of one PR marked open
CheckClosed ==
    /\ Sc.pc = "check"
    /\ LET n == Sc.open[Sc.k]
       IN IF gh[n].unreachable
          THEN /\ db' = db
               /\ job' = [job EXCEPT !.scraper = NextOpen(Sc)]
          ELSE Step(IF gh[n].state = "closed" THEN [Sc EXCEPT !.pc = "close_labels"]
                    ELSE NextOpen(Sc),
                    NextOpen(Sc), db)
    /\ UNCHANGED gh
    /\ TablesOnly

\* handleClosedPRs: UPDATE pr_health_labels SET pr_state = 'closed'
CloseLabels ==
    /\ Sc.pc = "close_labels"
    /\ Step([Sc EXCEPT !.pc = "close_state"], NextOpen(Sc),
            [db EXCEPT !.pr_health_labels = UpdateLabelState(@, Sc.open[Sc.k], "closed")])
    /\ UNCHANGED gh
    /\ TablesOnly

\* handleClosedPRs: UPDATE pr_states SET pr_state = 'closed', last_checked = NOW()
CloseState ==
    /\ Sc.pc = "close_state"
    /\ Step(NextOpen(Sc), NextOpen(Sc),
            [db EXCEPT !.pr_states = UpdateState(@, Sc.open[Sc.k], "closed")])
    /\ UNCHANGED gh
    /\ TablesOnly

ScraperRun ==
    \/ \E mode \in Modes, prNumber \in DOMAIN gh : RunMain(mode, prNumber)
    \/ FetchDetails \/ DeleteLabels \/ InsertLabels \/ UpsertPRState
    \/ FetchReviews \/ EnsurePRState \/ FetchComments \/ StoreCodecovComment
    \/ SelectHealthOpen \/ SelectStatesOpen \/ CheckClosed \/ CloseLabels \/ CloseState

\* update-pr-states.js: BATCH_SIZE as given on the command line, and the
\* number of failed fetches a run tolerates
BatchSize == 2
ErrorLimit == 5


\* update-pr-states.js: the step after one PR of the batch
NextInBatch(u) ==
    IF u.i < Len(u.batch) THEN [u EXCEPT !.pc = "fetch", !.i = @ + 1, !.prData = NoJob]
    ELSE [u EXCEPT !.pc = "done", !.prData = NoJob]

\* SELECT pr_number ... FROM pr_states WHERE pr_state = 'open'
\* ORDER BY last_checked ASC LIMIT ?
OldestOpen(states, limit) ==
    LET open == SelectSeq(states, LAMBDA row : row.pr_state = "open")
    IN [i \in 1..(IF Len(open) < limit THEN Len(open) ELSE limit) |-> open[i].pr_number]

\* a step of update-pr-states.js: it succeeds, or the query fails and the
\* catch of main ends the run
UpdaterStep(ok, dbOk) ==
    \/ /\ db' = dbOk
       /\ job' = [job EXCEPT !.updater = ok]
    \/ /\ job.faults < MaxFaults
       /\ db' = db
       /\ job' = [job EXCEPT !.updater = [Up EXCEPT !.pc = "done", !.prData = NoJob],
                             !.faults = @ + 1]

\* update-pr-states.js main: the batch of open PRs, oldest last_checked first
UpdaterMain(counted) ==
    /\ Up.pc \in {"idle", "done"}
    /\ counted => Sc.runs + Up.runs < MaxTableRuns
    /\ LET batch == OldestOpen(db.pr_states, BatchSize)
           u == [IdleUpdater EXCEPT !.batch = batch, !.checked = Up.checked,
                                    !.runs = IF counted THEN Up.runs + 1 ELSE Up.runs]
       IN /\ db' = db
          /\ job' = [job EXCEPT !.updater = NextInBatch(u)]
    /\ UNCHANGED gh
    /\ TablesOnly

\* fetchPRState, and the branch on its result
UpdaterFetch ==
    /\ Up.pc = "fetch"
    /\ LET n == Up.batch[Up.i]
           failed == IF Up.errors + 1 > ErrorLimit
                     THEN [Up EXCEPT !.pc = "done", !.errors = @ + 1]
                     ELSE NextInBatch([Up EXCEPT !.errors = @ + 1])
           fetched == [Up EXCEPT !.prData = [state |-> gh[n].state],
                                 !.checked = @ \cup {n},
                                 !.pc = IF gh[n].state # "open" THEN "write_states"
                                        ELSE "touch"]
       IN \/ /\ job' = [job EXCEPT !.updater = IF gh[n].unreachable THEN failed
                                                ELSE fetched]
          \/ /\ job.faults < MaxFaults
             /\ job' = [job EXCEPT !.updater = failed, !.faults = @ + 1]
    /\ UNCHANGED <<db, gh>>
    /\ TablesOnly

\* UPDATE pr_states SET pr_state = ?, assignees = ?, last_checked = NOW()
UpdaterWriteState ==
    /\ Up.pc = "write_states"
    /\ UpdaterStep([Up EXCEPT !.pc = "write_labels"],
                   [db EXCEPT !.pr_states =
                                 UpdateState(@, Up.batch[Up.i], Up.prData.state)])
    /\ UNCHANGED gh
    /\ TablesOnly

\* UPDATE pr_health_labels SET pr_state = ? WHERE pr_number = ?
UpdaterWriteLabels ==
    /\ Up.pc = "write_labels"
    /\ UpdaterStep(NextInBatch(Up),
                   [db EXCEPT !.pr_health_labels =
                                 UpdateLabelState(@, Up.batch[Up.i], Up.prData.state)])
    /\ UNCHANGED gh
    /\ TablesOnly

\* still open: UPDATE pr_states SET assignees = ?, last_checked = NOW()
UpdaterTouch ==
    /\ Up.pc = "touch"
    /\ UpdaterStep(NextInBatch(Up),
                   [db EXCEPT !.pr_states = TouchState(@, Up.batch[Up.i])])
    /\ UNCHANGED gh
    /\ TablesOnly

UpdaterRun ==
    UpdaterFetch \/ UpdaterWriteState \/ UpdaterWriteLabels \/ UpdaterTouch

\* a pull request is closed or reopened on GitHub, once
GitHubChange(n) ==
    /\ n \notin job.changes
    /\ gh' = [gh EXCEPT ![n].state = IF @ = "open" THEN "closed" ELSE "open"]
    /\ job' = [job EXCEPT !.changes = @ \cup {n}]
    /\ UNCHANGED db
    /\ TablesOnly

\* the pull requests on GitHub
TablePRs == {1, 2}

\* the comment lists of the first pull request
CommentWorlds ==
    {<< >>,
     <<CoverageComment("report a")>>,
     <<CoverageComment("report a"), CoverageComment("report b")>>,
     <<PlainComment(<<"alice">>), CoverageComment("report a")>>,
     <<PlainComment(NULL), CoverageComment("report a")>>}

\* the tables as an earlier scrape left them, the first PR in state s
Scraped(s) ==
    [pr_health_labels |->
        UNION {LabelRows(n, IF n = 1 THEN <<HealthLabel>> ELSE << >>,
                         IF n = 1 THEN s ELSE "open") : n \in TablePRs},
     pr_states |-> [n \in TablePRs |->
                       [pr_number |-> n, pr_state |-> IF n = 1 THEN s ELSE "open"]],
     pr_codecov_comments |->
        {[pr_number |-> 1, codecov_comment |-> <<"report old">>,
          codecov_created_at |-> <<"2023-12-31", " ", "09:00:00">>,
          codecov_present |-> 1]}]

NoRuns == [scraper |-> IdleRun, updater |-> IdleUpdater, faults |-> 0, changes |-> {}]

\* the server has answered nothing and the summaries are empty
ViewsIdle ==
    /\ tr = NoRow
    /\ fact = NoFact
    /\ path = "none"
    /\ now = 0
    /\ reqPR = 0
    /\ response = {}
    /\ summary = NoSummary
    /\ flaky_tests_summary = {}
    /\ lastFlakyRun = -1
    /\ console = << >>

TablesIdle ==
    /\ ScraperIdle
    /\ ViewsIdle
    /\ host = NoJob
    /\ query = NoJob
    /\ job = NoRuns

\* runs of the scraper, one after the other
InitTables ==
    /\ TablesIdle
    /\ \E s \in {"open", "closed"}, comments \in CommentWorlds :
          gh = [n \in TablePRs |->
                  IF n = 1 THEN PullRequest(s, <<HealthLabel>>, comments, FALSE)
                  ELSE PullRequest("open", << >>, << >>, FALSE)]
    /\ db \in {NoTables, Scraped("open")}

NextTables == ScraperRun

SpecTables == InitTables /\ [][NextTables]_vars

\* the scraper and update-pr-states.js at the same time
InitSync ==
    /\ TablesIdle
    /\ \E s \in {"open", "closed"} :
          gh = [n \in TablePRs |->
                  IF n = 1 THEN PullRequest(s, <<HealthLabel>>, << >>, FALSE)
                  ELSE PullRequest("open", << >>, << >>, FALSE)]
    /\ db \in {Scraped(s) : s \in {"open", "closed"}}

NextSync ==
    \/ ScraperRun
    \/ UpdaterMain(TRUE)
    \/ UpdaterRun
    \/ GitHubChange(1)

SpecSync == InitSync /\ [][NextSync]_vars


\* repeated runs of update-pr-states.js: one PR more than a batch holds
UpdaterPRs == 1..(BatchSize + 1)

InitUpdater ==
    /\ TablesIdle
    /\ gh \in [UpdaterPRs -> {PullRequest(s, << >>, << >>, u) :
                                 s \in {"open", "closed"}, u \in BOOLEAN}]
    /\ db = [pr_health_labels |-> UNION {LabelRows(n, << >>, "open") : n \in UpdaterPRs},
             pr_states |-> [n \in UpdaterPRs |-> [pr_number |-> n, pr_state |-> "open"]],
             pr_codecov_comments |-> {}]

NextUpdater ==
    \/ UpdaterMain(FALSE)
    \/ UpdaterRun

\* cron starts the script again and again, and a started run goes on
SpecUpdater ==
    InitUpdater /\ [][NextUpdater]_vars /\ WF_vars(UpdaterMain(FALSE)) /\ WF_vars(UpdaterRun)

----------------------------------------------------------------------------
(* cleanup-duplicates.js over test_results.  The rows differ in the columns
   test_file and hypervisor; the other columns of the key are the same in
   every row. *)

\* rows the DELETE takes per batch (10000 in the script)
batchSize == 2

CleanupFiles == {NULL, << >>, <<"test_a.py">>}
CleanupHypervisors == {NULL, <<"kvm">>}

StoredResult(id, file, hv) ==
    [id |-> id, pr_number |-> 1, test_name |-> "test_a", test_file |-> file,
     hypervisor |-> hv, hypervisor_version |-> NULL, test_date |-> NULL]

\* GROUP BY pr_number, test_name, test_file, hypervisor, hypervisor_version, test_date
GroupKey(row) ==
    <<row.pr_number, row.test_name, row.test_file, row.hypervisor,
      row.hypervisor_version, row.test_date>>

GroupOf(rows, key) == {row \in rows : GroupKey(row) = key}

\* COALESCE(column, '')
Coalesce(value) == IF value = NULL THEN << >> ELSE value

\* COALESCE(test_date, '1970-01-01')
CoalesceDate(value) == IF value = NULL THEN <<"1970-01-01">> ELSE value

\* the inner SELECT: key and MAX(id) of the groups HAVING COUNT(*) > 1
DuplicateGroups(rows) ==
    {[key |-> key, keep_id |-> MaxOf({row.id : row \in GroupOf(rows, key)})] :
        key \in {GroupKey(row) : row \in {r \in rows :
                                            Cardinality(GroupOf(rows, GroupKey(r))) > 1}}}

\* the ON clause of the join of t1 with the groups
JoinsGroup(t1, t2) ==
    /\ t1.pr_number = t2.key[1]
    /\ t1.test_name = t2.key[2]
    /\ Coalesce(t1.test_file) = Coalesce(t2.key[3])
    /\ Coalesce(t1.hypervisor) = Coalesce(t2.key[4])
    /\ Coalesce(t1.hypervisor_version) = Coalesce(t2.key[5])
    /\ CoalesceDate(t1.test_date) = CoalesceDate(t2.key[6])
    /\ t1.id < t2.keep_id

\* the rows of the join, before LIMIT
Joined(rows) == {pair \in rows \X DuplicateGroups(rows) : JoinsGroup(pair[1], pair[2])}

\* LIMIT: any batchSize rows of the join, all of them when there are fewer
Limited(joined) ==
    {batch \in SUBSET joined :
        Cardinality(batch) = IF Cardinality(joined) < batchSize THEN Cardinality(joined)
                             ELSE batchSize}

NoCleanup == [pc |-> "idle", before |-> {}, totalDeleted |-> 0]

CleanupOnly ==
    UNCHANGED <<github, nextId, scr, tr, fact, path, now, reqPR, response, summary,
                flaky_tests_summary, lastFlakyRun, db, console, gh, host, query>>

\* cleanupDuplicates: connect
CleanupStart ==
    /\ job.pc = "idle"
    /\ job' = [job EXCEPT !.pc = "loop", !.before = test_results]
    /\ UNCHANGED test_results
    /\ CleanupOnly

\* one pass of the while loop: the DELETE, then hasMore = deleted === batchSize
CleanupBatch ==
    /\ job.pc = "loop"
    /\ \E batch \in Limited(Joined(test_results)) :
          LET ids == {pair[1].id : pair \in batch}
              deleted == Cardinality(ids)
          IN /\ test_results' = {row \in test_results : row.id \notin ids}
             /\ job' = [job EXCEPT !.pc = IF deleted = batchSize THEN "loop" ELSE "done",
                                   !.totalDeleted = @ + deleted]
    /\ CleanupOnly

\* the tables of up to MaxCleanupRows rows, ids in the order of insertion
CleanupTables ==
    {{StoredResult(i, files[i], hvs[i]) : i \in 1..n} :
        n \in {k \in 0..MaxCleanupRows : TRUE},
        files \in [1..MaxCleanupRows -> CleanupFiles],
        hvs \in [1..MaxCleanupRows -> CleanupHypervisors]}

InitCleanup ==
    /\ github = [prNumber \in PRNumbers |-> << >>]
    /\ test_results \in CleanupTables
    /\ nextId = MaxCleanupRows + 1
    /\ scr = [p \in Scrapers |-> IdleScraper]
    /\ ViewsIdle
    /\ db = NoHealthData
    /\ gh = << >>
    /\ host = NoJob
    /\ query = NoJob
    /\ job = NoCleanup

NextCleanup == CleanupStart \/ CleanupBatch

SpecCleanup == InitCleanup /\ [][NextCleanup]_vars

----------------------------------------------------------------------------
(* monitor-scraper.sh and scraper-cron.sh on the production server.  host
   holds the lock file (0 when there is none, else the PID written to it),
   the instances of the monitor, the run of the cron wrapper and what the
   checks of the monitor see in the scraper log.  The PID of an instance is
   its number; StalePid is the PID of a process that is gone. *)

Monitors == {1, 2}
StalePid == Cardinality(Monitors) + 1

LogStates == [exists : BOOLEAN, fresh : BOOLEAN, errors : BOOLEAN, success : BOOLEAN]

MonitorOff == [pc |-> "off", runs |-> 0]

HostOnly ==
    UNCHANGED <<github, test_results, nextId, scr, tr, fact, path, now, reqPR, response,
                summary, flaky_tests_summary, lastFlakyRun, db, console, gh, job, query>>

\* ps -p "$LOCK_PID"
Alive(pid) == pid \in Monitors /\ host.mon[pid].pc # "off"

\* cron or a shell starts monitor-scraper.sh
MonitorStart(p) ==
    /\ host.mon[p].pc = "off"
    /\ host.mon[p].runs < MaxHostRuns
    /\ host' = [host EXCEPT !.mon[p] = [pc |-> "test", runs |-> @.runs + 1]]
    /\ HostOnly

\* if [ -f "$LOCK_FILE" ] and ps -p: exit 0 when the PID in it is running
MonitorTestLock(p) ==
    /\ host.mon[p].pc = "test"
    /\ host' = [host EXCEPT !.mon[p].pc = IF host.lock # 0 /\ Alive(host.lock) THEN "off"
                                          ELSE "create"]
    /\ HostOnly

\* echo $$ > "$LOCK_FILE"
MonitorCreateLock(p) ==
    /\ host.mon[p].pc = "create"
    /\ host' = [host EXCEPT !.mon[p].pc = "check", !.lock = p]
    /\ HostOnly

\* check_cron_job, check_log_freshness, check_for_errors, check_recent_success
Healthy ==
    /\ host.cronJob
    /\ host.log.exists /\ host.log.fresh
    /\ ~host.log.errors
    /\ host.log.success

\* main: the four checks, then trigger_scraper when one of them failed
MonitorCheck(p) ==
    /\ host.mon[p].pc = "check"
    /\ host' = [host EXCEPT !.mon[p].pc = IF Healthy THEN "cleanup" ELSE "recover"]
    /\ HostOnly

\* a run of scrape-github-prs.js appends to the log and ends
ScrapeEnds(log) ==
    {[log EXCEPT !.exists = TRUE, !.fresh = TRUE, !.success = TRUE],
     [log EXCEPT !.exists = TRUE, !.fresh = TRUE, !.errors = TRUE]}

\* trigger_scraper: node scrape-github-prs.js >> "$LOG_FILE" returns
MonitorRecovered(p) ==
    /\ host.mon[p].pc = "recover"
    /\ \E log \in ScrapeEnds(host.log) :
          host' = [host EXCEPT !.mon[p].pc = "cleanup", !.log = log]
    /\ HostOnly

\* rm -f "$LOCK_FILE"; removedOther records that the file held the PID of
\* another instance that is running
MonitorRemoveLock(p) ==
    /\ host.mon[p].pc = "cleanup"
    /\ host' = [host EXCEPT !.mon[p].pc = "off", !.lock = 0,
                            !.removedOther = @ \/ (host.lock # p /\ Alive(host.lock))]
    /\ HostOnly

\* cron starts scraper-cron.sh: touch "$LOG_FILE", then node scrape-github-prs.js
CronStart ==
    /\ host.cronJob
    /\ host.cron.pc = "idle"
    /\ host.cron.runs < MaxHostRuns
    /\ host' = [host EXCEPT !.cron = [pc |-> "scraping", runs |-> @.runs + 1],
                            !.log.exists = TRUE, !.log.fresh = TRUE]
    /\ HostOnly

\* the scraper of scraper-cron.sh returns
CronEnd ==
    /\ host.cron.pc = "scraping"
    /\ \E log \in ScrapeEnds(host.log) :
          host' = [host EXCEPT !.cron.pc = "idle", !.log = log]
    /\ HostOnly

InitHost ==
    /\ ScraperIdle
    /\ ViewsIdle
    /\ db = NoHealthData
    /\ gh = << >>
    /\ job = NoJob
    /\ query = NoJob
    /\ \E lock \in {0, StalePid}, log \in LogStates, cronJob \in BOOLEAN :
          host = [lock |-> lock, mon |-> [p \in Monitors |-> MonitorOff],
                  cron |-> [pc |-> "idle", runs |-> 0], log |-> log, cronJob |-> cronJob,
                  removedOther |-> FALSE]

NextHost ==
    \/ \E p \in Monitors :
          \/ MonitorStart(p) \/ MonitorTestLock(p) \/ MonitorCreateLock(p)
          \/ MonitorCheck(p) \/ MonitorRecovered(p) \/ MonitorRemoveLock(p)
    \/ CronStart
    \/ CronEnd

SpecHost == InitHost /\ [][NextHost]_vars

----------------------------------------------------------------------------
(* queryWithRetry of the server.  query holds one call: its retries, the
   attempt of the loop, and the outcome of every pool.query so far. *)

DefaultRetries == 3

\* what pool.query resolves to or rejects with
Rows == [kind |-> "rows"]
QueryError(code, errno) == [kind |-> "error", code |-> code, errno |-> errno]
QueryOutcomes ==
    {Rows, QueryError("ETIMEDOUT", -110), QueryError("ETIMEDOUT", -60),
     QueryError("EPIPE", -60), QueryError("ECONNREFUSED", -111),
     QueryError("PROTOCOL_CONNECTION_LOST", 0), QueryError("ER_PARSE_ERROR", 1064)}

\* new Error('Query failed after all retries')
AllRetriesFailed == [kind |-> "error", code |-> "none", errno |-> 0]

NoCall ==
    [pc |-> "idle", given |-> FALSE, retries |-> 0, attempt |-> 0, outcomes |-> << >>,
     thrown |-> NoJob]

QueryOnly ==
    UNCHANGED <<github, test_results, nextId, scr, tr, fact, path, now, reqPR, response,
                summary, flaky_tests_summary, lastFlakyRun, db, console, gh, job, host>>

\* const isTimeout = error.code === 'ETIMEDOUT' || error.errno === -60
IsTimeout(error) == error.code = "ETIMEDOUT" \/ error.errno = -60

\* Mutant: every error but that of the last attempt is retried
ShouldRetryAnyError(error, attempt, retries) == attempt # retries - 1

\* if (isTimeout && !isLastAttempt)
ShouldRetry(error, attempt, retries) == IsTimeout(error) /\ attempt # retries - 1

\* the head of the for loop: the next pool.query, or the throw after the loop
Loop(call) ==
    IF call.attempt < call.retries THEN [call EXCEPT !.pc = "query"]
    ELSE [call EXCEPT !.pc = "thrown", !.thrown = AllRetriesFailed]

\* a route calls queryWithRetry, with retries or without
QueryCall(given, retries) ==
    /\ query.pc \in {"idle", "returned", "thrown"}
    /\ query' = Loop([NoCall EXCEPT !.given = given,
                                    !.retries = IF given THEN retries ELSE DefaultRetries])
    /\ QueryOnly

\* pool.query settles: return rows, or the catch block
QuerySettles(outcome) ==
    /\ query.pc = "query"
    /\ LET call == [query EXCEPT !.outcomes = Append(@, outcome)]
       IN query' = IF outcome = Rows THEN [call EXCEPT !.pc = "returned"]
                   ELSE IF ShouldRetry(outcome, call.attempt, call.retries)
                   THEN [call EXCEPT !.pc = "backoff"]
                   ELSE [call EXCEPT !.pc = "thrown", !.thrown = outcome]
    /\ QueryOnly

\* the setTimeout of the backoff fires: continue
QueryBackoff ==
    /\ query.pc = "backoff"
    /\ query' = Loop([query EXCEPT !.attempt = @ + 1])
    /\ QueryOnly

InitQuery ==
    /\ ScraperIdle
    /\ ViewsIdle
    /\ db = NoHealthData
    /\ gh = << >>
    /\ job = NoJob
    /\ host = NoJob
    /\ query = NoCall

NextQuery ==
    \/ \E given \in BOOLEAN, retries \in 0..MaxRetries : QueryCall(given, retries)
    \/ \E outcome \in QueryOutcomes : QuerySettles(outcome)
    \/ QueryBackoff

\* every pool.query settles and every timer fires
SpecQuery ==
    InitQuery /\ [][NextQuery]_vars
        /\ WF_vars(\E outcome \in QueryOutcomes : QuerySettles(outcome))
        /\ WF_vars(QueryBackoff)

----------------------------------------------------------------------------
(* Claims about the PR tables *)

\* the coverage predicate: the body or the author's login names codecov
IsCoverage(comment) ==
    \/ comment.codecov
    \/ comment.user # NULL /\ LoginIncludesCodecov(comment.user)

\* the rows of pr_codecov_comments of the PR processPR last returned for
LastCoverageRows == {row \in db.pr_codecov_comments : row.pr_number = Sc.last.pr}

\* C22: when processPR has returned for a PR whose requests and statements
\* all succeeded and one of whose comments satisfies the coverage predicate,
\* pr_codecov_comments holds exactly one row for the PR, with the body of the
\* first such comment in fetch order.
CoverageIsFirstMatch ==
    (/\ Sc.last # NoJob
     /\ Sc.last.outcome # "error"
     /\ \E i \in 1..Len(Sc.last.comments) : IsCoverage(Sc.last.comments[i]))
        => LET first == CHOOSE i \in 1..Len(Sc.last.comments) :
                           /\ IsCoverage(Sc.last.comments[i])
                           /\ \A j \in 1..(i - 1) : ~IsCoverage(Sc.last.comments[j])
           IN /\ Cardinality(LastCoverageRows) = 1
              /\ \A row \in LastCoverageRows :
                    /\ row.codecov_comment = Sc.last.comments[first].lines
                    /\ row.codecov_present = 1

\* the positions of the scraper after the loop over the list
AfterList ==
    {"select_health", "select_states", "check", "close_labels", "close_state", "done",
     "fatal"}

\* C23: processPR is called for the PRs of the list in order, whatever
\* failed before; once the loop is left it was called for every PR of the
\* list, and a run in default mode that ends has started handleClosedPRs.
FailureSkipsNoPR ==
    /\ Len(Sc.visited) <= Len(Sc.prs)
    /\ Sc.visited = SubSeq(Sc.prs, 1, Len(Sc.visited))
    /\ Sc.pc \in AfterList => Sc.visited = Sc.prs
    /\ (Sc.pc = "done" /\ Sc.mode = "default") => Sc.closedCheck

\* a run in default mode has ended after processPR failed for the first of two PRs
FailedFirstOfTwo ==
    /\ Sc.pc = "done"
    /\ Sc.mode = "default"
    /\ Len(Sc.prs) = 2
    /\ Sc.prs[1] \in Sc.failed
    /\ Sc.visited = Sc.prs
    /\ Sc.closedCheck

\* C24: while and after the scraper runs, every PR that had rows in
\* pr_health_labels when the run started has at least one row there.
LabelRowsNeverMissing ==
    Sc.pc # "idle"
        => \A n \in Sc.had : \E row \in db.pr_health_labels : row.pr_number = n

\* every PR with rows in both tables has one pr_state
InSync ==
    \A row \in db.pr_health_labels :
        HasState(db.pr_states, row.pr_number)
            => StateOf(db.pr_states, row.pr_number) = row.pr_state

\* C25: when no run of the scraper or of update-pr-states.js is under way
\* and one has completed, every PR present in pr_health_labels and in
\* pr_states has the same pr_state in both.
TablesInSync ==
    (/\ Sc.pc \in {"idle", "done"}
     /\ Up.pc \in {"idle", "done"}
     /\ Sc.runs + Up.runs > 0)
        => InSync

MarkedOpen(n) == HasState(db.pr_states, n) /\ StateOf(db.pr_states, n) = "open"

\* C26: under repeated runs of update-pr-states.js, a PR marked open in
\* pr_states whose own fetch succeeds is eventually fetched from GitHub,
\* whatever happens to the fetches of the other PRs.
EveryOpenPREventuallyChecked ==
    \A n \in UpdaterPRs :
        (MarkedOpen(n) /\ ~gh[n].unreachable) ~> (n \in Up.checked)

\* the rows of a group that are left
Remaining(key) == GroupOf(test_results, key)

\* C27: when cleanup-duplicates has completed, every group of rows with
\* the same (pr_number, test_name, test_file, hypervisor, hypervisor_version,
\* test_date) that was in test_results has exactly one row left, the one
\* with the highest id; a row alone in its group is therefore still there.
CleanupKeepsNewestOfEachGroup ==
    job.pc = "done"
        => \A row \in job.before :
              LET group == GroupOf(job.before, GroupKey(row))
              IN Remaining(GroupKey(row)) =
                    {r \in group : r.id = MaxOf({g.id : g \in group})}

\* the instances of the monitor that are in main
InMain == {p \in Monitors : host.mon[p].pc \in {"check", "recover"}}

\* C28: at most one instance of monitor-scraper.sh is in its health check,
\* and no instance has removed the lock file while it held the PID of
\* another running instance.
OneMonitorAtATime ==
    /\ Cardinality(InMain) <= 1
    /\ ~host.removedOther

\* the runs of scrape-github-prs.js under way
ScrapersRunning ==
    Cardinality({p \in Monitors : host.mon[p].pc = "recover"})
        + (IF host.cron.pc = "scraping" THEN 1 ELSE 0)

\* C29: at most one run of scrape-github-prs.js is under way on the server,
\* whether the cron wrapper or the monitor started it.
OneScraperAtATime == ScrapersRunning <= 1

Ended == query.pc \in {"returned", "thrown"}

\* the outcomes of a call so far keep what queryWithRetry promises
RetryContract ==
    /\ Len(query.outcomes) <= query.retries
    /\ \A i \in 1..(Len(query.outcomes) - 1) :
          query.outcomes[i] # Rows /\ IsTimeout(query.outcomes[i])
    /\ query.pc = "returned" => query.outcomes[Len(query.outcomes)] = Rows
    /\ (query.pc = "thrown" /\ query.outcomes # << >>)
          => /\ query.thrown = query.outcomes[Len(query.outcomes)]
             /\ query.thrown # Rows
             /\ IsTimeout(query.thrown) => Len(query.outcomes) = query.retries
    /\ (query.pc = "thrown" /\ query.outcomes = << >>) => query.retries = 0

\* C30: queryWithRetry runs the query at most retries times, runs it again
\* only after a timeout error, throws any other error and the timeout of the
\* last attempt as they came, and every call ends with rows returned or an
\* error thrown.
QueryWithRetryContract ==
    /\ []RetryContract
    /\ (query.pc = "query") ~> Ended

\* a call without retries has thrown the timeout of its third attempt
ThirdTimeoutThrown ==
    /\ query.pc = "thrown"
    /\ ~query.given
    /\ Len(query.outcomes) = DefaultRetries
    /\ IsTimeout(query.thrown)

====
